---- MODULE Spec2Model ----
(***************************************************************************)
(* A model of tamoc.dbm_utilities.get_oil and the functions it calls        *)
(* (load_tamoc_oil, load_simap_oil, load_gnome_oil, load_adios_oil,         *)
(* sequence_names, format_dbm_data, pedersen, natural_gas, mix_gas_for_gor, *)
(* set_mass_fluxes).                                                        *)
(* Spec is one call of get_oil, step by step.  DirectSpec is one direct     *)
(* call of a utility (load_tamoc_oil, format_dbm_data, sequence_names,      *)
(* pedersen, Vc_tuning, print_petroleum_props, seawater.sigma) with         *)
(* arguments of its own.  ScriptSpec is one run of the example script       *)
(* bin/ambient/profile_append.py, and ScriptLiveSpec the same run with the  *)
(* interpreter never stopping before the script's end.                      *)
(*                                                                          *)
(* Numbers.  Every real number of the program is kept exactly:              *)
(*   - a mass-fraction (or mass-flux) vector is a record [num, den]: the    *)
(*     vector of integer numerators over one common positive denominator;   *)
(*   - an entry of the binary interaction matrix delta is a pair            *)
(*     <<numerator, denominator>>;                                          *)
(*   - molecular weights are integers in units of 0.01 g/mol (pedersen only *)
(*     uses their ratios).                                                  *)
(* Optional values (Python's None) are sequences of length 0 (None) or 1.   *)
(***************************************************************************)
EXTENDS Integers, Sequences, FiniteSets, TLC

VARIABLES
    substance,     \* argument of get_oil: the oil description (dict or str)
    q_oil,         \* argument of get_oil: flow rate, bbl/d
    gor,           \* argument of get_oil: gas to oil ratio, ft^3/bbl
    ca,            \* argument of get_oil: list of atmospheric gases
    fp_type,       \* argument of get_oil: 0 gas, 1 oil
    env,           \* what is installed around the program (packages, numpy)
    pc,            \* position of the call inside get_oil
    bound,         \* TRUE once the locals composition .. delta_groups are bound
    composition,   \* local of get_oil
    mass_frac,     \* local of get_oil
    user_data,     \* local of get_oil
    delta,         \* local of get_oil (optional matrix)
    delta_groups,  \* local of get_oil (optional nc x 15 table)
    delta_grous,   \* local of get_oil bound at line 187 (optional table)
    loaded,        \* what the dispatch step bound (history of the call)
    beta,          \* the blend fraction fsolve returned, in units of 1/BetaDen
    flux_args,     \* the arguments handed to set_mass_fluxes (optional)
    v_oil,         \* local of set_mass_fluxes, line 641 (optional)
    mass_flux,     \* local of get_oil (optional [num, den, per])
    oil,           \* the dbm.FluidMixture get_oil returns (optional)
    calls,         \* the functions get_oil has invoked so far, in order
    error,         \* the exception that ended the call, "none" if none
    fn,            \* the function the caller invokes
    args,          \* a direct call of a utility: its arguments, as passed
    caller,        \* a direct call: the caller's list and array objects now
    returned,      \* a direct call: what the utility returned (optional)
    profile,       \* profile_append.py: the ambient.Profile object (optional)
    z_coords,      \* profile_append.py: the depth coordinates, line 125
    n2_conc,       \* profile_append.py: the nitrogen values, line 126
    idx,           \* profile_append.py: the loop variable i
    ops,           \* profile_append.py: the calls made on the profile
    at             \* profile_append.py: the line the script is at

vars == <<substance, q_oil, gor, ca, fp_type, env, pc, bound, composition,
          mass_frac, user_data, delta, delta_groups, delta_grous, loaded,
          beta, flux_args, v_oil, mass_flux, oil, calls, error,
          fn, args, caller, returned,
          profile, z_coords, n2_conc, idx, ops, at>>

\* the variables of a run of profile_append.py
script == <<profile, z_coords, n2_conc, idx, ops, at>>

----------------------------------------------------------------------------
(* Bounds of the model *)

\* beta, the root fsolve returns, ranges over 0/BetaDen .. BetaDen/BetaDen
BetaDen == 3
\* v_oil, the unit volumetric rate the flash returns, ranges over 0..MaxVOil
MaxVOil == 2
\* q_oil ranges over 1..MaxQOil
MaxQOil == 2

----------------------------------------------------------------------------
(* Helpers *)

None == <<>>
Some(x) == <<x>>
IsNone(o) == Len(o) = 0
Val(o) == o[1]

Range(s) == {s[i] : i \in 1..Len(s)}
Max(a, b) == IF a >= b THEN a ELSE b
Min(a, b) == IF a <= b THEN a ELSE b

RECURSIVE Sum(_)
Sum(s) == IF Len(s) = 0 THEN 0 ELSE Head(s) + Sum(Tail(s))

\* list.index(x): position (from 1) of the first entry equal to x
Index(s, x) == CHOOSE i \in 1..Len(s) : s[i] = x /\ \A j \in 1..(i-1) : s[j] # x

\* Python's `sub in s` for two strings
Contains(s, sub) ==
    \E i \in 1..(Len(s) - Len(sub) + 1) : SubSeq(s, i, i + Len(sub) - 1) = sub

Zero == <<0, 1>>
Zeros(n) == [i \in 1..n |-> 0]

----------------------------------------------------------------------------
(* The chemical database and the mixture object of tamoc.dbm *)

\* Molecular weights of the compounds of the chemical database that the model
\* uses, in 0.01 g/mol.
ChemDataM(name) ==
    CASE name = "methane" -> 1604
      [] name = "ethane" -> 3007
      [] name = "propane" -> 4410
      [] name = "isobutane" -> 5812
      [] name = "n-butane" -> 5812
      [] name = "nitrogen" -> 2801
      [] name = "oxygen" -> 3200
      [] name = "argon" -> 3995
      [] name = "carbon_dioxide" -> 4401
      [] name = "benzene" -> 7811
      [] name = "toluene" -> 9214
      [] OTHER -> 10000

\* The other fields of a compound of the chemical database, each an integer
\* in a fixed unit of its field.
ChemData(name) ==
    [kh_0 |-> 1, neg_dH_solR |-> 2000, nu_bar |-> 80, K_salt |-> 1,
     Vc |-> 250, Tb |-> 350, Vb |-> 90, B |-> 5, dE |-> 4000]

\* dbm.FluidMixture(composition, user_data=user_data).<field>
FluidMixtureField(comp, data, f) ==
    [i \in 1..Len(comp) |->
        IF comp[i] \in DOMAIN data THEN data[comp[i]][f] ELSE ChemData(comp[i])[f]]

\* dbm.FluidMixture(composition, user_data=user_data).M: the molecular weight
\* of each component, from user_data when it has the name, else from the
\* database.
FluidMixtureM(comp, data) ==
    [i \in 1..Len(comp) |->
        IF comp[i] \in DOMAIN data THEN data[comp[i]].M ELSE ChemDataM(comp[i])]

\* dbm.FluidMixture(composition, delta, delta_groups, user_data): what the
\* constructor is given.
FluidMixture(comp, d, dg, data) ==
    [composition |-> comp, delta |-> d, delta_groups |-> dg, user_data |-> data]

\* np.sum(x) == 0. for a stored delta matrix (entries are never negative)
DeltaSumIsZero(d) == \A i \in 1..Len(d) : \A j \in 1..Len(d[i]) : d[i][j][1] = 0
\* np.sum(x) == 0. for a stored group table (entries are never negative)
GroupsSumIsZero(g) == \A i \in 1..Len(g) : \A j \in 1..Len(g[i]) : g[i][j] = 0

----------------------------------------------------------------------------
(* pedersen *)

air == <<"nitrogen", "oxygen", "carbon_dioxide">>
gas == <<"methane", "ethane", "propane", "isobutane", "n-butane">>

\* delta between air (rows) and the natural gases (columns), in 1/10000
delta_air_gas ==
    << <<311, 515, 852, 1033, 800>>,
       <<311, 515, 852, 1033, 800>>,
       <<1200, 1200, 1200, 1200, 1200>> >>

\* delta between air and longer-chain hydrocarbons, in 1/100
delta_air_hydro == <<8, 8, 1>>

chems == <<"Saturates", "Aromatics", "Resins", "Asphaltenes">> \o air \o gas

\* lines 1532-1541: some base name of chems is in the compound's name
Known(name) == \E j \in 1..Len(chems) : Contains(name, chems[j])

\* the correlation with the smaller of the two ratios
PedersenHydroMin(M) ==
    [i \in 1..Len(M) |-> [j \in 1..Len(M) |->
        IF i # j
        THEN <<145 * Min(M[i], M[j]), 100000 * Max(M[i], M[j])>>
        ELSE Zero]]

\* lines 1465-1475: the hydrocarbon-hydrocarbon correlation
PedersenHydro(M) ==
    [i \in 1..Len(M) |-> [j \in 1..Len(M) |->
        IF i # j
        THEN <<145 * Max(M[i], M[j]), 100000 * Min(M[i], M[j])>>
        ELSE Zero]]

\* one pass of the loop over air without the table of the natural gases
AirCorrectionHydroOnly(d, comp, k) ==
    IF air[k] \notin Range(comp) THEN d
    ELSE LET air_idx == Index(comp, air[k])
         IN  [i \in 1..Len(d) |-> [j \in 1..Len(d) |->
                 IF i = air_idx /\ j = air_idx THEN Zero
                 ELSE IF i = air_idx \/ j = air_idx
                      THEN <<delta_air_hydro[k], 100>>
                      ELSE d[i][j]]]

\* one pass of the loop over air that writes the rows and not the columns
AirCorrectionRowsOnly(d, comp, k) ==
    IF air[k] \notin Range(comp) THEN d
    ELSE LET air_idx == Index(comp, air[k])
             GasAt(j) == {g \in 1..Len(gas) :
                             gas[g] \in Range(comp) /\ Index(comp, gas[g]) = j}
         IN  [i \in 1..Len(d) |-> [j \in 1..Len(d) |->
                 IF i = air_idx /\ j = air_idx THEN Zero
                 ELSE IF i = air_idx /\ GasAt(j) # {}
                      THEN <<delta_air_gas[k][CHOOSE g \in GasAt(j) : TRUE], 10000>>
                      ELSE IF i = air_idx THEN <<delta_air_hydro[k], 100>>
                           ELSE d[i][j]]]

\* lines 1496-1524, one pass of the loop over air: the correction for air[k]
AirCorrection(d, comp, k) ==
    IF air[k] \notin Range(comp) THEN d
    ELSE LET air_idx == Index(comp, air[k])
             hydro == [i \in 1..Len(d) |-> [j \in 1..Len(d) |->
                         IF i = air_idx /\ j = air_idx THEN Zero
                         ELSE IF i = air_idx \/ j = air_idx
                              THEN <<delta_air_hydro[k], 100>>
                              ELSE d[i][j]]]
             GasAt(i) == {g \in 1..Len(gas) :
                             gas[g] \in Range(comp) /\ Index(comp, gas[g]) = i}
         IN  [i \in 1..Len(d) |-> [j \in 1..Len(d) |->
                 IF i = air_idx /\ GasAt(j) # {}
                 THEN <<delta_air_gas[k][CHOOSE g \in GasAt(j) : TRUE], 10000>>
                 ELSE IF j = air_idx /\ GasAt(i) # {}
                      THEN <<delta_air_gas[k][CHOOSE g \in GasAt(i) : TRUE], 10000>>
                      ELSE hydro[i][j]]]

\* the matrix with the unknown compounds left as they are
KeepUnknown(d, comp) == d

\* lines 1532-1549: rows and columns of unknown compounds are set to zero
ZeroUnknown(d, comp) ==
    [i \in 1..Len(d) |-> [j \in 1..Len(d) |->
        IF (i <= Len(comp) /\ ~Known(comp[i])) \/ (j <= Len(comp) /\ ~Known(comp[j]))
        THEN Zero ELSE d[i][j]]]

pedersen(M, comp) ==
    LET d0 == PedersenHydro(M)
    IN  IF Len(comp) > 0
        THEN ZeroUnknown(
                 AirCorrection(AirCorrection(AirCorrection(d0, comp, 1), comp, 2),
                               comp, 3),
                 comp)
        ELSE d0

----------------------------------------------------------------------------
(* natural_gas *)

gas_compounds == <<"methane", "ethane", "propane", "isobutane", "n-butane">>

\* gas_fractions, in 1/10000
gas_fractions == [num |-> <<9390, 420, 184, 3, 3>>, den |-> 10000]

GroupRow(head) == head \o [i \in 1..(15 - Len(head)) |-> 0]

\* the Privat and Jaubert group rows of the five gases (5 x 15)
gas_delta_groups ==
    << GroupRow(<<0, 0, 0, 0, 1>>),
       GroupRow(<<0, 0, 0, 0, 0, 1>>),
       GroupRow(<<2, 1>>),
       GroupRow(<<3, 0, 1>>),
       GroupRow(<<2, 2>>) >>

----------------------------------------------------------------------------
(* sequence_names, format_dbm_data and the loaders *)

\* lines 1132-1136: the loop of sequence_names from position i on
RECURSIVE SequenceNamesLoop(_, _, _, _)
SequenceNamesLoop(sara_names, name, i, id_num) ==
    IF i > Len(sara_names) THEN sara_names
    ELSE IF sara_names[i] = name
         THEN SequenceNamesLoop(
                  [sara_names EXCEPT ![i] = sara_names[i] \o ToString(id_num)],
                  name, i + 1, id_num + 1)
         ELSE SequenceNamesLoop(sara_names, name, i + 1, id_num)

\* the numbering started at 0
sequence_names_from_zero(sara_names, name) ==
    SequenceNamesLoop(sara_names, name, 1, 0)

\* the list sara_names after sequence_names(sara_names, name)
sequence_names(sara_names, name) == SequenceNamesLoop(sara_names, name, 1, 1)

\* the flag of lines 331-340, 747-750 and 1082-1085
Sentinel == -9999

\* an argument as Python holds it: None, a list or a numpy array
NoArg == [kind |-> "None", value |-> <<>>]
list(v) == [kind |-> "list", value |-> v]
ndarray(v) == [kind |-> "ndarray", value |-> v]

\* lines 331-340: an argument that is not a numpy array is replaced by
\* np.zeros(nc) - 9999.
OrFlags(X, nc) ==
    IF X.kind = "ndarray" THEN X.value ELSE [i \in 1..nc |-> Sentinel]

\* the array kh_0 left as it was given
KeepKh(kh_0, nc) == kh_0

\* lines 343-345, in place on the array the caller passed
ClampKh(kh_0, nc) ==
    [i \in 1..Len(kh_0) |-> IF i <= nc /\ kh_0[i] < 0 THEN 0 ELSE kh_0[i]]

\* lines 328-369: one record per name; a later component of the same name
\* overwrites an earlier one.  Pc, Tc and omega are copied as M is and are not
\* carried.  All values are integers in a fixed unit of their field.
format_dbm_data(comp, M, kh_0, neg_dH_solR, nu_bar, K_salt, Vc, Tb, Vb, B, dE) ==
    LET nc == Len(comp)
        kh == ClampKh(kh_0, nc)
        last(nm) == CHOOSE i \in 1..nc :
                        comp[i] = nm /\ \A j \in (i+1)..nc : comp[j] # nm
    IN  [nm \in Range(comp) |->
            [M |-> M[last(nm)],
             kh_0 |-> kh[last(nm)],
             neg_dH_solR |-> neg_dH_solR[last(nm)],
             nu_bar |-> nu_bar[last(nm)],
             K_salt |-> K_salt[last(nm)],
             Vc |-> OrFlags(Vc, nc)[last(nm)],
             Tb |-> OrFlags(Tb, nc)[last(nm)],
             Vb |-> OrFlags(Vb, nc)[last(nm)],
             B |-> OrFlags(B, nc)[last(nm)],
             dE |-> OrFlags(dE, nc)[last(nm)]]]

\* np.array(masses) of lines 254-257: a float becomes a one-element array, a
\* list becomes an array, an ndarray is taken as it is; any other scalar
\* (a Python int) passes both tests and stays a scalar, which numpy divides
\* by np.sum of itself: a zero-dimensional value, carried here as its one
\* element
MassesArray(masses) ==
    CASE masses.kind = "float" -> <<masses.value>>
      [] masses.kind = "list" -> masses.value
      [] masses.kind = "ndarray" -> masses.value
      [] masses.kind = "int" -> <<masses.value>>

\* the dict given for the key 'composition'
TamocSubstance ==
    [composition |-> <<"benzene", "toluene">>,
     masses |-> [kind |-> "list", value |-> <<1, 3>>],
     user_data |-> <<>>]

\* load_tamoc_oil without the division of line 258
load_tamoc_oil_masses(sub) ==
    LET masses == MassesArray(sub.masses)
        comp == sub.composition
        M == FluidMixtureM(comp, sub.user_data)
        oil_ == [f \in DOMAIN ChemData("") |->
                    FluidMixtureField(comp, sub.user_data, f)]
    IN  [composition |-> comp,
         mass_frac |-> [num |-> masses, den |-> 1],
         user_data |-> format_dbm_data(comp, M, oil_.kh_0, oil_.neg_dH_solR,
                           oil_.nu_bar, oil_.K_salt, ndarray(oil_.Vc),
                           ndarray(oil_.Tb), ndarray(oil_.Vb), ndarray(oil_.B),
                           ndarray(oil_.dE)),
         delta |-> Some(pedersen(M, comp)),
         delta_groups |-> None]

load_tamoc_oil(sub) ==
    LET masses == MassesArray(sub.masses)
        comp == sub.composition
        M == FluidMixtureM(comp, sub.user_data)
        oil_ == [f \in DOMAIN ChemData("") |->
                    FluidMixtureField(comp, sub.user_data, f)]
    IN  [composition |-> comp,
         mass_frac |-> [num |-> masses, den |-> Sum(masses)],
         user_data |-> format_dbm_data(comp, M, oil_.kh_0, oil_.neg_dH_solR,
                           oil_.nu_bar, oil_.K_salt, ndarray(oil_.Vc),
                           ndarray(oil_.Tb), ndarray(oil_.Vb), ndarray(oil_.B),
                           ndarray(oil_.dE)),
         delta |-> Some(pedersen(M, comp)),
         delta_groups |-> None]

\* lines 1205-1236: solubility / vapor pressure times the molecular weight,
\* here in units in which the quotient is an integer
get_henry_constant(solubility, vapor_pressure_25C, molecular_weight) ==
    [i \in 1..Len(solubility) |->
        (solubility[i] * molecular_weight[i]) \div vapor_pressure_25C[i]]

\* The estimates of lines 728-739 and 1068-1075 (Gros et al., 2018) are
\* correlations in real numbers; a description carries the values they give
\* for it, each field in a fixed unit: est_nu_bar, est_neg_delta_H_sol_R,
\* est_K_salt, est_Vc and est_Vb.  Lines 768-776 (1092-1102) afterwards tune
\* the fields 'Vc' and 'Vb' only; the records keep the estimates there.

\* the dict given for the key 'simap_names'
SimapSubstance ==
    [simap_names |-> <<"AR1", "AL1", "Residual">>,
     molecular_weight |-> <<7800, 8600, 30000>>,
     mass_fraction |-> [num |-> <<2, 3, 5>>, den |-> 10],
     boiling_point |-> <<350, 340, 700>>,
     vapor_pressure |-> <<100, 200, 1>>,
     solubility |-> <<20, 1, 0>>,
     est_nu_bar |-> <<90, 110, 400>>,
     est_neg_delta_H_sol_R |-> <<3500, 3600, 9000>>,
     est_K_salt |-> <<2, 3, 9>>,
     est_Vc |-> <<260, 300, 1100>>,
     est_Vb |-> <<96, 112, 440>>]

\* the estimates kept for every component
KeepEstimates(aromatic, x) == x

\* lines 1078-1085 and 743-750: the solubility of a component that is not an
\* aromatic is turned off
FlagUnless(aromatic, x) ==
    [i \in 1..Len(x) |-> IF aromatic[i] THEN x[i] ELSE Sentinel]

load_simap_oil(simap) ==
    LET comp == simap.simap_names
        M == simap.molecular_weight
        k_h_0 == get_henry_constant(simap.solubility, simap.vapor_pressure, M)
        AR == [i \in 1..Len(comp) |-> Contains(comp[i], "AR")]
    IN  [composition |-> comp,
         mass_frac |-> simap.mass_fraction,
         user_data |-> format_dbm_data(comp, M, FlagUnless(AR, k_h_0),
                           FlagUnless(AR, simap.est_neg_delta_H_sol_R),
                           FlagUnless(AR, simap.est_nu_bar),
                           FlagUnless(AR, simap.est_K_salt),
                           ndarray(simap.est_Vc), ndarray(simap.boiling_point),
                           ndarray(simap.est_Vb), NoArg, NoArg),
         delta |-> Some(pedersen(M, <<>>)),
         delta_groups |-> None]

\* the record the oil catalog holds for the identifier (either generation)
CatalogRecord ==
    [component_types |-> <<"Saturates", "Aromatics", "Saturates", "Resins">>,
     molecular_weight |-> <<9000, 8000, 20000, 60000>>,
     mass_fraction |-> [num |-> <<4, 3, 2, 1>>, den |-> 10],
     boiling_point |-> <<340, 350, 500, 900>>,
     vapor_pressure_25C |-> <<200, 100, 10, 1>>,
     solubility |-> <<1, 20, 1, 0>>,
     est_nu_bar |-> <<110, 90, 250, 700>>,
     est_neg_delta_H_sol_R |-> <<3600, 3500, 6000, 15000>>,
     est_K_salt |-> <<3, 2, 6, 20>>,
     est_Vc |-> <<300, 260, 800, 2000>>,
     est_Vb |-> <<112, 96, 315, 820>>]

\* a record whose two heaviest components are both of the category Resins
ResinsRecord ==
    [CatalogRecord EXCEPT
        !.component_types = <<"Saturates", "Aromatics", "Resins", "Resins">>,
        !.molecular_weight = <<9000, 8000, 15000, 20000>>]

\* lines 693 and 828: the record the catalog holds for an identifier
Catalog(adios_id) ==
    IF adios_id = "AD01554" THEN CatalogRecord ELSE ResinsRecord

\* lines 712-776 after the record is read
SaraOil(gnome_oil) ==
    LET comp == sequence_names(
                    sequence_names(gnome_oil.component_types, "Saturates"),
                    "Aromatics")
        M == gnome_oil.molecular_weight
        k_h_0 == get_henry_constant(gnome_oil.solubility,
                                    gnome_oil.vapor_pressure_25C, M)
        Aromatics == [i \in 1..Len(comp) |-> Contains(comp[i], "Aromatics")]
    IN  [composition |-> comp,
         mass_frac |-> gnome_oil.mass_fraction,
         user_data |-> format_dbm_data(comp, M, FlagUnless(Aromatics, k_h_0),
                           FlagUnless(Aromatics, gnome_oil.est_neg_delta_H_sol_R),
                           FlagUnless(Aromatics, gnome_oil.est_nu_bar),
                           FlagUnless(Aromatics, gnome_oil.est_K_salt),
                           ndarray(gnome_oil.est_Vc),
                           ndarray(gnome_oil.boiling_point),
                           ndarray(gnome_oil.est_Vb), NoArg, NoArg),
         delta |-> Some(pedersen(M, <<>>)),
         delta_groups |-> None]

\* lines 652-783, the record's fields read as attributes
load_gnome_oil(gnome_oil) == SaraOil(gnome_oil)

\* lines 786-923, the record's fields read by key
load_adios_oil(gnome_oil) == SaraOil(gnome_oil)

----------------------------------------------------------------------------
(* Existing mixtures handed to get_oil under the key 'dbm_mixture' *)

ZeroMatrix(n) == [i \in 1..n |-> [j \in 1..n |-> Zero]]
ZeroGroups(n) == [i \in 1..n |-> GroupRow(<<>>)]

\* dbm.FluidMixture.__init__: a mixture built without delta (delta_groups)
\* stores a table of zeros for it.
StoredMixture(comp, d, dg, data) ==
    [composition |-> comp,
     delta |-> IF IsNone(d) THEN ZeroMatrix(Len(comp)) ELSE Val(d),
     delta_groups |-> IF IsNone(dg) THEN ZeroGroups(Len(comp)) ELSE Val(dg),
     user_data |-> data]

SaraData ==
    format_dbm_data(<<"Saturates1", "Aromatics1">>, <<9000, 8000>>,
                    <<0, 80>>, <<Sentinel, 3500>>, <<Sentinel, 90>>,
                    <<Sentinel, 2>>, ndarray(<<300, 260>>), ndarray(<<340, 350>>),
                    ndarray(<<112, 96>>), NoArg, NoArg)
AromaticGroups ==
    << GroupRow(<<0, 0, 0, 0, 0, 0, 6>>), GroupRow(<<1, 0, 0, 0, 0, 0, 5, 1>>) >>

Mixtures ==
    << \* built with a Pedersen matrix
       StoredMixture(<<"Saturates1", "Aromatics1">>,
                     Some(pedersen(<<9000, 8000>>, <<>>)), None, SaraData),
       \* built with group-contribution rows
       StoredMixture(<<"benzene", "toluene">>, None, Some(AromaticGroups), <<>>),
       \* built with neither
       StoredMixture(<<"benzene", "toluene">>, None, None, <<>>),
       \* built with both
       StoredMixture(<<"Saturates1", "Aromatics1">>,
                     Some(pedersen(<<9000, 8000>>, <<>>)), Some(AromaticGroups),
                     SaraData) >>

\* substance['masses'] on the 'dbm_mixture' path: fractions, or masses in kg
MixtureMasses ==
    << [num |-> <<1, 3>>, den |-> 4], [num |-> <<1, 3>>, den |-> 1] >>

----------------------------------------------------------------------------
(* The calls of get_oil that the model explores *)

DictKeys == {"composition", "simap_names", "dbm_mixture"}

\* A dict substance: the recognised keys it holds and, for 'dbm_mixture', the
\* mixture (an index into Mixtures) and the masses (an index into
\* MixtureMasses) it carries; these vary where the 'dbm_mixture' branch reads
\* them.
DictSubstances ==
    {s \in {[type |-> "dict", keys |-> K, mixture |-> m, masses |-> w,
             name |-> "", isfile |-> FALSE] :
                K \in SUBSET DictKeys, m \in 1..Len(Mixtures),
                w \in 1..Len(MixtureMasses)} :
        s.keys = {"dbm_mixture"} \/ (s.mixture = 1 /\ s.masses = 1)}

\* A str substance: its text and whether open(substance) finds a file.
StrSubstances ==
    {[type |-> "str", keys |-> {}, mixture |-> 1, masses |-> 1,
      name |-> n, isfile |-> f] :
        n \in {"AD01554", "oil.json", "oil.txt"}, f \in BOOLEAN}

Faults == {"none", "FileNotFoundError", "ModuleNotFoundError"}

\* oil_library, adios_db: the package can be imported.
\* gnome_fault, adios_fault: what the body of the catalog loader raises when
\*   its package is there and the file (adios) exists.
\* none_eq_scalar: numpy evaluates `array == None` to the scalar False (numpy
\*   before 1.13); otherwise the comparison is elementwise and `if` on its
\*   result raises ValueError.
DictEnvs ==
    {[oil_library |-> TRUE, adios_db |-> TRUE, gnome_fault |-> "none",
      adios_fault |-> "none", none_eq_scalar |-> b] : b \in BOOLEAN}

StrEnvs ==
    {e \in {[oil_library |-> l, adios_db |-> m, gnome_fault |-> gf,
             adios_fault |-> af, none_eq_scalar |-> FALSE] :
                l \in BOOLEAN, m \in BOOLEAN, gf \in Faults, af \in Faults} :
        e.gnome_fault = "none" \/ e.adios_fault = "none"}

CaLists == {<<>>, <<"nitrogen">>, <<"carbon_dioxide", "nitrogen">>}
GorValues == {0, 500}

\* no run of profile_append.py is under way
NoScript ==
    /\ profile = <<>> /\ z_coords = <<>> /\ n2_conc = <<>> /\ idx = 0
    /\ ops = <<>> /\ at = "none"

Init ==
    /\ \/ substance \in DictSubstances /\ env \in DictEnvs
       \/ substance \in StrSubstances /\ env \in StrEnvs
    /\ q_oil \in 1..MaxQOil
    /\ gor \in GorValues
    /\ ca \in CaLists
    /\ fp_type \in {0, 1}
    /\ pc = "dispatch"
    /\ bound = FALSE
    /\ composition = <<>>
    /\ mass_frac = [num |-> <<>>, den |-> 1]
    /\ user_data = <<>>
    /\ delta = None
    /\ delta_groups = None
    /\ delta_grous = None
    /\ loaded = None
    /\ beta = None
    /\ flux_args = None
    /\ v_oil = None
    /\ mass_flux = None
    /\ oil = None
    /\ calls = <<>>
    /\ error = "none"
    /\ fn = "get_oil"
    /\ args = None
    /\ caller = None
    /\ returned = None
    /\ NoScript

\* the variables of a direct call of a utility
direct == <<fn, args, caller, returned>>

inputs == <<substance, q_oil, gor, ca, fp_type, env>>

\* an exception leaves get_oil
Raise(e) == pc' = "raised" /\ error' = e

\* the names bound, the property records dropped
BindWithoutRecords(r) ==
    /\ bound' = TRUE
    /\ composition' = r.composition
    /\ mass_frac' = r.mass_frac
    /\ user_data' = <<>>
    /\ delta' = r.delta
    /\ delta_groups' = r.delta_groups
    /\ loaded' = Some(r)

\* the six names bound by a loader's return tuple (units is not modelled)
Bind(r) ==
    /\ bound' = TRUE
    /\ composition' = r.composition
    /\ mass_frac' = r.mass_frac
    /\ user_data' = r.user_data
    /\ delta' = r.delta
    /\ delta_groups' = r.delta_groups
    /\ loaded' = Some(r)

locals == <<bound, composition, mass_frac, user_data, delta, delta_groups, loaded>>
later == <<delta_grous, beta, flux_args, v_oil, mass_flux, oil>>

----------------------------------------------------------------------------
(* get_oil, lines 78-107: a dict substance *)

\* DictRoute with the tests for 'composition' and 'simap_names' exchanged
DictRouteSimapFirst(keys) ==
    IF "simap_names" \in keys THEN "load_simap_oil"
    ELSE IF "composition" \in keys THEN "load_tamoc_oil"
    ELSE IF "dbm_mixture" \in keys THEN "dbm_mixture"
    ELSE "invalid"

\* lines 80, 85, 90, 105: the branch taken for the keys of the dict
DictRoute(keys) ==
    IF "composition" \in keys THEN "load_tamoc_oil"
    ELSE IF "simap_names" \in keys THEN "load_simap_oil"
    ELSE IF "dbm_mixture" \in keys THEN "dbm_mixture"
    ELSE "invalid"

\* lines 80-83
LoadTamocOil ==
    /\ pc = "dispatch" /\ substance.type = "dict"
    /\ DictRoute(substance.keys) = "load_tamoc_oil"
    /\ calls' = Append(calls, "load_tamoc_oil")
    /\ Bind(load_tamoc_oil(TamocSubstance))
    /\ pc' = "augment"
    /\ UNCHANGED <<direct, script, inputs, later, error>>

\* lines 85-88
LoadSimapOil ==
    /\ pc = "dispatch" /\ substance.type = "dict"
    /\ DictRoute(substance.keys) = "load_simap_oil"
    /\ calls' = Append(calls, "load_simap_oil")
    /\ Bind(load_simap_oil(SimapSubstance))
    /\ pc' = "augment"
    /\ UNCHANGED <<direct, script, inputs, later, error>>

\* the stored tables bound as they are, a table of zeros too
ReusedMixtureVerbatim(dbm_mixture, masses) ==
    [composition |-> dbm_mixture.composition,
     mass_frac |-> masses,
     user_data |-> dbm_mixture.user_data,
     delta |-> Some(dbm_mixture.delta),
     delta_groups |-> Some(dbm_mixture.delta_groups)]

\* the masses divided by their sum, as load_tamoc_oil does
ReusedMixtureNormalized(dbm_mixture, masses) ==
    [composition |-> dbm_mixture.composition,
     mass_frac |-> [num |-> masses.num, den |-> Sum(masses.num)],
     user_data |-> dbm_mixture.user_data,
     delta |-> IF DeltaSumIsZero(dbm_mixture.delta)
               THEN None ELSE Some(dbm_mixture.delta),
     delta_groups |-> IF GroupsSumIsZero(dbm_mixture.delta_groups)
                      THEN None ELSE Some(dbm_mixture.delta_groups)]

\* lines 91-103: what the 'dbm_mixture' branch binds
ReusedMixture(dbm_mixture, masses) ==
    [composition |-> dbm_mixture.composition,
     mass_frac |-> masses,
     user_data |-> dbm_mixture.user_data,
     delta |-> IF DeltaSumIsZero(dbm_mixture.delta)
               THEN None ELSE Some(dbm_mixture.delta),
     delta_groups |-> IF GroupsSumIsZero(dbm_mixture.delta_groups)
                      THEN None ELSE Some(dbm_mixture.delta_groups)]

\* lines 90-103
ReuseMixture ==
    /\ pc = "dispatch" /\ substance.type = "dict"
    /\ DictRoute(substance.keys) = "dbm_mixture"
    /\ calls' = Append(calls, "dbm_mixture")
    /\ Bind(ReusedMixture(Mixtures[substance.mixture],
                          MixtureMasses[substance.masses]))
    /\ pc' = "augment"
    /\ UNCHANGED <<direct, script, inputs, later, error>>

\* lines 105-107: the message is printed and the call goes on, nothing bound
InvalidDict ==
    /\ pc = "dispatch" /\ substance.type = "dict"
    /\ DictRoute(substance.keys) = "invalid"
    /\ pc' = "augment"
    /\ UNCHANGED <<direct, script, inputs, locals, later, calls, error>>

----------------------------------------------------------------------------
(* get_oil, lines 109-158: a str substance *)

\* StrRoute without the test of line 133: every existing file goes to adios_db
StrRouteAnyFile(legacy, modern, isfile, hasjson) ==
    IF ~legacy THEN "L158"
    ELSE IF ~modern THEN "L152"
    ELSE IF ~isfile THEN "L146"
    ELSE "L136"

\* lines 118-158: the line of the loader call that the probes select
\* (import oil_library, import adios_db, open(substance), 'json' in substance)
StrRoute(legacy, modern, isfile, hasjson) ==
    IF ~legacy THEN "L158"
    ELSE IF ~modern THEN "L152"
    ELSE IF ~isfile THEN "L146"
    ELSE IF hasjson THEN "L136"
    ELSE "L141"

\* the except clause that takes exception exc raised by the call at a site:
\* the line of the call it makes, or "raise" when no clause takes it
Handler(site, exc) ==
    CASE site \in {"L136", "L141"} /\ exc = "FileNotFoundError" -> "L146"
      [] site \in {"L136", "L141", "L146"} /\ exc = "ModuleNotFoundError" -> "L152"
      [] site = "L152" /\ exc = "ModuleNotFoundError" -> "L158"
      [] OTHER -> "raise"

\* lines 118-133
ProbeCatalogs ==
    /\ pc = "dispatch" /\ substance.type = "str"
    /\ pc' = StrRoute(env.oil_library, env.adios_db, substance.isfile,
                      Contains(substance.name, "json"))
    /\ UNCHANGED <<direct, script, inputs, locals, later, calls, error>>

\* what a call of load_gnome_oil ends with: line 690 needs oil_library
GnomeOutcome ==
    IF ~env.oil_library THEN "ModuleNotFoundError" ELSE env.gnome_fault

\* what a call of load_adios_oil ends with: lines 824-825 need adios_db,
\* line 828 needs the file
AdiosOutcome ==
    IF ~env.adios_db THEN "ModuleNotFoundError"
    ELSE IF ~substance.isfile THEN "FileNotFoundError"
    ELSE env.adios_fault

\* a loader call at line pc that ended with outcome
AfterLoader(outcome, result) ==
    IF outcome = "none"
    THEN /\ Bind(result)
         /\ pc' = "augment"
         /\ error' = error
    ELSE /\ UNCHANGED locals
         /\ IF Handler(pc, outcome) = "raise"
            THEN Raise(outcome)
            ELSE pc' = Handler(pc, outcome) /\ error' = error

\* lines 140-141, 145-146, 151-152
LoadGnomeOil ==
    /\ pc \in {"L141", "L146", "L152"}
    /\ calls' = Append(calls, "load_gnome_oil")
    /\ AfterLoader(GnomeOutcome, load_gnome_oil(Catalog(substance.name)))
    /\ UNCHANGED <<direct, script, inputs, later>>

\* lines 135-136, 157-158
LoadAdiosOil ==
    /\ pc \in {"L136", "L158"}
    /\ calls' = Append(calls, "load_adios_oil")
    /\ AfterLoader(AdiosOutcome, load_adios_oil(Catalog(substance.name)))
    /\ UNCHANGED <<direct, script, inputs, later>>

----------------------------------------------------------------------------
(* get_oil, lines 160-182: the atmospheric gases *)

\* lines 176-181: one group row per atmospheric gas
air_groups(gases) ==
    [i \in 1..Len(gases) |->
        [j \in 1..15 |->
            IF (gases[i] = "nitrogen" /\ j = 13)
               \/ (gases[i] = "carbon_dioxide" /\ j = 12)
            THEN 1 ELSE 0]]

\* AugmentedFractions with the slice at the wrong end
\* (new_mf[len(ca):] = mass_frac)
AugmentedFractionsAtEnd(mf, n) ==
    [num |-> [i \in 1..n |->
                 IF i > n - Len(mf.num) THEN mf.num[i - (n - Len(mf.num))] ELSE 0],
     den |-> mf.den]

\* lines 167-169: the mass fractions with zeros for the appended gases
AugmentedFractions(mf, n) ==
    [num |-> [i \in 1..n |-> IF i <= Len(mf.num) THEN mf.num[i] ELSE 0],
     den |-> mf.den]

\* WantsAugment with the comparison weakened (len(ca) >= 0)
WantsAugmentAlways(gases) == Len(gases) >= 0

\* line 161
WantsAugment(gases) == Len(gases) > 0

AddAtmosphericGases ==
    /\ pc = "augment"
    /\ UNCHANGED <<direct, script, inputs, later, user_data, loaded, bound>>
    /\ IF ~WantsAugment(ca)
       THEN \* line 161 is false
            /\ pc' = "blend"
            /\ UNCHANGED <<composition, mass_frac, delta, delta_groups, calls, error>>
       ELSE /\ calls' = Append(calls, "augment")
            /\ IF ~bound
               THEN \* line 163 reads composition
                    /\ Raise("UnboundLocalError")
                    /\ UNCHANGED <<composition, mass_frac, delta, delta_groups>>
               ELSE /\ composition' = composition \o ca
                    /\ mass_frac' = AugmentedFractions(mass_frac, Len(composition'))
                    /\ IF IsNone(delta_groups)
                       THEN \* lines 173-174
                            /\ delta' = Some(pedersen(
                                   FluidMixtureM(composition', user_data),
                                   composition'))
                            /\ pc' = "blend"
                            /\ UNCHANGED <<delta_groups, error>>
                       ELSE \* line 172 on an array, else line 182 reads the
                            \* name delta_group, bound nowhere
                            /\ Raise(IF env.none_eq_scalar
                                     THEN "NameError" ELSE "ValueError")
                            /\ UNCHANGED <<delta, delta_groups>>

----------------------------------------------------------------------------
(* mix_gas_for_gor and get_oil, lines 185-189 *)

\* BlendedFractions with the oil weighted by beta too
\* (beta * mf_gas + beta * mf_oil)
BlendedFractionsSameWeight(gas_mf, dead_mass_frac, b) ==
    LET n == Len(gas_mf.num) + Len(dead_mass_frac.num)
        mf_gas == [i \in 1..n |-> IF i <= Len(gas_mf.num) THEN gas_mf.num[i] ELSE 0]
        mf_oil == [i \in 1..n |->
                      IF i > Len(gas_mf.num)
                      THEN dead_mass_frac.num[i - Len(gas_mf.num)] ELSE 0]
    IN  [num |-> [i \in 1..n |->
                     b * mf_gas[i] * dead_mass_frac.den
                     + b * mf_oil[i] * gas_mf.den],
         den |-> BetaDen * gas_mf.den * dead_mass_frac.den]

\* lines 456-459 and 491: beta * mf_gas + (1 - beta) * mf_oil for
\* beta = b / BetaDen, over the common denominator
BlendedFractions(gas_mf, dead_mass_frac, b) ==
    LET n == Len(gas_mf.num) + Len(dead_mass_frac.num)
        mf_gas == [i \in 1..n |-> IF i <= Len(gas_mf.num) THEN gas_mf.num[i] ELSE 0]
        mf_oil == [i \in 1..n |->
                      IF i > Len(gas_mf.num)
                      THEN dead_mass_frac.num[i - Len(gas_mf.num)] ELSE 0]
    IN  [num |-> [i \in 1..n |->
                     b * mf_gas[i] * dead_mass_frac.den
                     + (BetaDen - b) * mf_oil[i] * gas_mf.den],
         den |-> BetaDen * gas_mf.den * dead_mass_frac.den]

\* line 462 raises ValueError when delta_groups is an array and numpy compares
\* it with None elementwise
MixGasRaises(dg) == ~IsNone(dg) /\ ~env.none_eq_scalar

\* lines 448-494: the tuple mix_gas_for_gor returns when fsolve returned b
mix_gas_for_gor(dead_composition, dead_mass_frac, data, d, dg, b) ==
    LET comp == gas_compounds \o dead_composition
    IN  [composition |-> comp,
         mass_frac |-> BlendedFractions(gas_fractions, dead_mass_frac, b),
         delta |-> IF IsNone(dg)
                   THEN Some(pedersen(FluidMixtureM(comp, data), comp))
                   ELSE d,
         delta_groups |-> IF IsNone(dg) THEN dg
                          ELSE Some(gas_delta_groups \o Val(dg))]

\* WantsBlend with the comparison weakened (gor >= 0.)
WantsBlendAtZero(g) == g >= 0

\* line 186
WantsBlend(g) == g > 0

MixGasForGor ==
    /\ pc = "blend"
    /\ UNCHANGED <<direct, script, inputs, user_data, loaded, bound, delta_groups,
                   flux_args, v_oil,
                   mass_flux, oil>>
    /\ IF ~WantsBlend(gor)
       THEN \* line 186 is false
            /\ pc' = "flux"
            /\ UNCHANGED <<composition, mass_frac, delta, delta_grous, beta,
                           calls, error>>
       ELSE IF ~bound
       THEN \* line 188 reads composition
            /\ Raise("UnboundLocalError")
            /\ UNCHANGED <<composition, mass_frac, delta, delta_grous, beta, calls>>
       ELSE /\ calls' = Append(calls, "mix_gas_for_gor")
            /\ IF MixGasRaises(delta_groups)
               THEN /\ Raise("ValueError")
                    /\ UNCHANGED <<composition, mass_frac, delta, delta_grous, beta>>
               ELSE \E b \in 0..BetaDen :
                       LET r == mix_gas_for_gor(composition, mass_frac, user_data,
                                                delta, delta_groups, b)
                       IN  /\ beta' = Some(b)
                           /\ composition' = r.composition
                           /\ mass_frac' = r.mass_frac
                           /\ delta' = r.delta
                           /\ delta_grous' = r.delta_groups
                           /\ pc' = "flux"
                           /\ error' = error

----------------------------------------------------------------------------
(* set_mass_fluxes and get_oil, lines 191-200 *)

\* lines 637-641: the volume (bbl) of the selected phase in the flash of the
\* unit mass at standard conditions.  The flash and the density are the
\* engine's; a mixture with no mass in the selected phase gives no volume.
VOilValues == 0..MaxVOil

\* the scaling without the conversion of q_oil from bbl/d to bbl/s
set_mass_fluxes_per_second(mf, q, v) ==
    [num |-> [i \in 1..Len(mf.num) |-> mf.num[i] * q],
     den |-> mf.den,
     per |-> v]

\* lines 644-645: mass_frac * k_fac with k_fac = (q_oil / 86400.) / v_oil.
\* The flux of component i is num[i] / (den * per): the denominator is kept
\* as two factors.  The division by v_oil is one of numpy floats: v_oil = 0
\* raises nothing and leaves per = 0, a flux that is inf or nan.
set_mass_fluxes(mf, q, v) ==
    [num |-> [i \in 1..Len(mf.num) |-> mf.num[i] * q],
     den |-> mf.den,
     per |-> 86400 * v]

\* lines 192-193
SetMassFluxes ==
    /\ pc = "flux"
    /\ UNCHANGED <<direct, script, inputs, locals, delta_grous, beta, oil>>
    /\ IF ~bound
       THEN \* line 192 reads composition
            /\ Raise("UnboundLocalError")
            /\ UNCHANGED <<flux_args, v_oil, mass_flux, calls>>
       ELSE /\ calls' = Append(calls, "set_mass_fluxes")
            /\ flux_args' = Some([composition |-> composition,
                                  mass_frac |-> mass_frac,
                                  user_data |-> user_data,
                                  delta |-> delta,
                                  delta_groups |-> delta_groups])
            /\ \E v \in VOilValues :
                   /\ v_oil' = Some(v)
                   /\ mass_flux' = Some(set_mass_fluxes(mass_frac, q_oil, v))
            /\ pc' = "construct"
            /\ error' = error

\* lines 196-200
ConstructMixture ==
    /\ pc = "construct"
    /\ calls' = Append(calls, "FluidMixture")
    /\ oil' = Some(FluidMixture(composition, delta, delta_groups, user_data))
    /\ pc' = "done"
    /\ UNCHANGED <<direct, script, inputs, locals, delta_grous, beta, flux_args, v_oil,
                   mass_flux, error>>

Next ==
    \/ LoadTamocOil
    \/ LoadSimapOil
    \/ ReuseMixture
    \/ InvalidDict
    \/ ProbeCatalogs
    \/ LoadGnomeOil
    \/ LoadAdiosOil
    \/ AddAtmosphericGases
    \/ MixGasForGor
    \/ SetMassFluxes
    \/ ConstructMixture

Spec == Init /\ [][Next]_vars

----------------------------------------------------------------------------
(* Direct calls of the utilities: format_dbm_data *)

\* the longest composition of a direct call
MaxNc == 2

\* the variables of a call of get_oil
get_oil_state == <<inputs, pc, locals, later, calls, error>>

\* no call of get_oil is under way
NoGetOil ==
    /\ substance = None /\ q_oil = 0 /\ gor = 0 /\ ca = <<>> /\ fp_type = 1
    /\ env = None /\ pc = "none" /\ bound = FALSE /\ composition = <<>>
    /\ mass_frac = [num |-> <<>>, den |-> 1] /\ user_data = <<>>
    /\ delta = None /\ delta_groups = None /\ delta_grous = None
    /\ loaded = None /\ beta = None /\ flux_args = None /\ v_oil = None
    /\ mass_flux = None /\ oil = None /\ calls = <<>> /\ error = "none"

\* Henry's law constants a caller passes: the flag, a negative value, zero
\* and a positive value
KhValues == {Sentinel, -1, 0, 3}
FormatNames == {"AR1", "AL1"}
Optional == {"Vc", "Tb", "Vb", "B", "dE"}

\* an optional argument of a kind (None, list or ndarray) for nc components
OptionalArg(kind, nc) ==
    CASE kind = "None" -> NoArg
      [] kind = "list" -> list([i \in 1..nc |-> 100 + i])
      [] kind = "ndarray" -> ndarray([i \in 1..nc |-> 100 + i])

\* the arguments of a direct call of format_dbm_data: arrays of size nc as
\* the docstring asks; each optional argument left out, given as a list or
\* given as an array
FormatArgs ==
    UNION { { [composition |-> c,
               M |-> [i \in 1..nc |-> 7000 + 100 * i],
               kh_0 |-> k,
               neg_dH_solR |-> [i \in 1..nc |-> 3000 + i],
               nu_bar |-> [i \in 1..nc |-> 90 + i],
               K_salt |-> [i \in 1..nc |-> i],
               Vc |-> OptionalArg(o["Vc"], nc),
               Tb |-> OptionalArg(o["Tb"], nc),
               Vb |-> OptionalArg(o["Vb"], nc),
               B |-> OptionalArg(o["B"], nc),
               dE |-> OptionalArg(o["dE"], nc)] :
                 c \in [1..nc -> FormatNames],
                 k \in [1..nc -> KhValues],
                 o \in [Optional -> {"None", "ndarray"}]
                        \cup {[f \in Optional |-> "list"]} } :
            nc \in 0..MaxNc }

\* the longest list of names drawn from all of SaraNames
MaxLen == 3
\* the longest list of names drawn from the base name and one other name
MaxRun == 10

SaraNames == {"Saturates", "Aromatics", "Resins", "Saturates1"}

\* the arguments of a direct call of sequence_names: short lists of any of
\* the names and long lists of the base name and 'Resins', in which the
\* counter reaches two digits
SequenceArgs ==
    UNION { { [sara_names |-> l, name |-> b] :
                 l \in UNION { [1..n -> SaraNames] : n \in 0..MaxLen }
                        \cup UNION { [1..n -> {b, "Resins"}] : n \in 0..MaxRun } } :
            b \in {"Saturates", "Aromatics"} }

\* the longest array of molecular weights
MaxM == 3

\* molecular weights of a direct call of pedersen; only their ratios count
MValues == {1, 3}

\* names of a direct call of pedersen: the atmospheric gases, two natural
\* gases, a SARA pseudo-component and a compound pedersen does not know
PedersenNames ==
    {"nitrogen", "oxygen", "carbon_dioxide", "methane", "n-butane",
     "Saturates1", "benzene"}

\* the arguments of a direct call of pedersen: M alone (composition = []),
\* or M and a composition of the same length
PedersenArgs ==
    UNION { { [M |-> m, composition |-> c] :
                 m \in [1..n -> MValues],
                 c \in [1..n -> PedersenNames] \cup {<<>>} } :
            n \in 2..MaxM }

\* the largest mass of one component, in kg
MaxMass == 2

MassValues == 0..MaxMass

TamocNames == {"benzene", "toluene"}

\* the substance dicts of a direct call of load_tamoc_oil: a composition
\* and one mass per component with a non-zero sum, given as a list or an
\* ndarray, or for one component as a float or an int
TamocArgs ==
    UNION { { [composition |-> c, masses |-> [kind |-> k, value |-> m],
               user_data |-> <<>>] :
                 c \in [1..n -> TamocNames],
                 k \in {"list", "ndarray"},
                 m \in {w \in [1..n -> MassValues] : Sum(w) # 0} } :
            n \in 1..MaxNc }
    \cup { [composition |-> <<c>>, masses |-> [kind |-> k, value |-> m],
            user_data |-> <<>>] :
              c \in TamocNames, k \in {"float", "int"},
              m \in MassValues \ {0} }

\* the arguments of a direct call of print_petroleum_props: a composition,
\* its mass fractions, the interaction data load_tamoc_oil gives for it, and
\* q_oil, None by default or a flow rate
PrintArgs ==
    UNION { { [comp |-> c, mass_frac |-> [num |-> w, den |-> Sum(w)],
               delta |-> Some(pedersen([i \in 1..n |-> ChemDataM(c[i])], c)),
               delta_groups |-> None, q_oil |-> q] :
                 c \in [1..n -> TamocNames],
                 w \in {w \in [1..n -> MassValues] : Sum(w) # 0},
                 q \in {None} \cup {Some(x) : x \in 1..MaxQOil} } :
            n \in 1..MaxNc }

\* the parameters of set_mass_fluxes, lines 592-593
SetMassFluxesParams ==
    <<"composition", "mass_frac", "user_data", "delta", "delta_groups",
      "q_oil", "fp_type">>

\* the positional arguments of the call of line 1908
PrintCallArgs == <<"comp", "mass_frac", "data", "delta", "q_oil">>

\* Python binds positional arguments to the parameters in order; a call that
\* leaves a parameter without default unbound raises TypeError
CallBinds(passed, params) == Len(passed) = Len(params)

\* the longest series of whole-oil density measurements
MaxMeas == 2

\* weathering states of a measurement: 0, the fresh oil, and one other
WeatheringValues == {0, 1}

\* Vc of a record before the tuning and the values the search can end at
VcValues == {250, 260}

\* a record of user_data as format_dbm_data writes it, with the given Vc
TuningRecord(Vc) ==
    [M |-> 10000, kh_0 |-> Sentinel, neg_dH_solR |-> Sentinel,
     nu_bar |-> Sentinel, K_salt |-> Sentinel, Vc |-> Vc, Tb |-> 350,
     Vb |-> 90, B |-> Sentinel, dE |-> Sentinel]

\* the arguments of a direct call of Vc_tuning: a composition of unique
\* names, its records, and the arrays T_0, rho_0, w_0 of the measurements,
\* of one length
TuningArgs ==
    UNION { { [composition |-> c,
               user_data |-> [nm \in Range(c) |-> TuningRecord(250)],
               T_0 |-> [i \in 1..k |-> 288],
               rho_0 |-> [i \in 1..k |-> 850 + i],
               w_0 |-> w] :
                 c \in {c \in [1..n -> {"Saturates1", "Aromatics1"}] :
                          \A i \in 1..n : \A j \in 1..n : c[i] = c[j] => i = j},
                 w \in [1..k -> WeatheringValues] } :
            n \in 1..MaxNc, k \in 0..MaxMeas }

\* seawater.sigma, src/tamoc/seawater.py lines 122-161.  Temperatures are
\* integers in 1/100 K (1/100 deg C after line 144), salinities in psu.

\* np.log(1. + x) of line 155 for x in 1/10^7, to second order, in 1/10^7
LogOnePlus(x) == x - (x * x) \div 20000000

\* line 153 with the test T <= 40
SalinityCorrectedUpTo40(T) == T <= 4000

\* line 153: the correction of equation (28) is applied for T < 40 deg C
SalinityCorrected(T) == T < 4000

\* lines 144-161.  The result is sigma_w * (1 + correction / 10^13), where
\* sigma_w is equation (27) at the temperature T_w (in 1/100 K) and
\* correction is (0.000226 T + 0.00946) log(1 + 0.0331 S), S in kg/kg; the
\* pure-water value has correction 0, the product with the float 1. being
\* exact.
sigma(T_K, S_psu) ==
    LET T == T_K - 27315
        T_w == T + 27315
    IN  IF SalinityCorrected(T)
        THEN [T_w |-> T_w,
              correction |-> ((226 * T) \div 100 + 9460)
                                 * LogOnePlus(331 * S_psu)]
        ELSE [T_w |-> T_w, correction |-> 0]

\* temperatures of a direct call of sigma, around 313.15 K = 40 deg C
SigmaT == {27315, 29315, 31314, 31315, 31316, 35315}

\* salinities of a direct call of sigma
SigmaS == {0, 1, 35, 40}

SigmaArgs == [T : SigmaT, S : SigmaS]

DirectInit ==
    /\ NoGetOil
    /\ NoScript
    /\ returned = None
    /\ \/ /\ fn = "format_dbm_data"
          /\ args \in FormatArgs
          /\ caller = [composition |-> args.composition, kh_0 |-> args.kh_0]
       \/ /\ fn = "sequence_names"
          /\ args \in SequenceArgs
          /\ caller = [sara_names |-> args.sara_names]
       \/ /\ fn = "pedersen"
          /\ args \in PedersenArgs
          /\ caller = [M |-> args.M, composition |-> args.composition]
       \/ /\ fn = "load_tamoc_oil"
          /\ args \in TamocArgs
          /\ caller = [substance |-> args]
       \/ /\ fn = "print_petroleum_props"
          /\ args \in PrintArgs
          /\ caller = [mass_frac |-> args.mass_frac]
       \/ /\ fn = "sigma"
          /\ args \in SigmaArgs
          /\ caller = args
       \/ /\ fn = "Vc_tuning"
          /\ args \in TuningArgs
          /\ caller = [composition |-> args.composition,
                       user_data |-> args.user_data]

\* lines 277-390
FormatDbmData ==
    /\ fn = "format_dbm_data"
    /\ IsNone(returned)
    /\ returned' = Some(format_dbm_data(args.composition, args.M, args.kh_0,
                            args.neg_dH_solR, args.nu_bar, args.K_salt,
                            args.Vc, args.Tb, args.Vb, args.B, args.dE))
    /\ caller' = [caller EXCEPT
                     !.kh_0 = ClampKh(args.kh_0, Len(args.composition))]
    /\ UNCHANGED <<fn, args, get_oil_state, script>>

\* lines 1112-1136: the list is changed in place and nothing is returned
SequenceNames ==
    /\ fn = "sequence_names"
    /\ IsNone(returned)
    /\ caller' = [caller EXCEPT
                     !.sara_names = sequence_names(args.sara_names, args.name)]
    /\ returned' = Some(None)
    /\ UNCHANGED <<fn, args, get_oil_state, script>>

\* lines 1432-1552
Pedersen ==
    /\ fn = "pedersen"
    /\ IsNone(returned)
    /\ returned' = Some(pedersen(args.M, args.composition))
    /\ UNCHANGED <<fn, args, caller, get_oil_state, script>>

\* lines 205-274
LoadTamocOilCall ==
    /\ fn = "load_tamoc_oil"
    /\ IsNone(returned)
    /\ returned' = Some(load_tamoc_oil(args))
    /\ UNCHANGED <<fn, args, caller, get_oil_state, script>>

\* lines 1813-1931: the properties are printed, then lines 1905-1908 choose
\* the flux; the call of line 1908 is bound to the parameters of
\* set_mass_fluxes before its body runs
PrintPetroleumProps ==
    /\ fn = "print_petroleum_props"
    /\ IsNone(returned)
    /\ IF IsNone(args.q_oil)
       THEN returned' = Some([error |-> "none",
                              mass_flux |-> Some(args.mass_frac)])
       ELSE IF CallBinds(PrintCallArgs, SetMassFluxesParams)
            THEN \E v \in VOilValues :
                    returned' = Some([error |-> "none",
                                      mass_flux |-> Some(set_mass_fluxes(
                                          args.mass_frac, Val(args.q_oil), v))])
            ELSE returned' = Some([error |-> "TypeError", mass_flux |-> None])
    /\ UNCHANGED <<fn, args, caller, get_oil_state, script>>

\* Vc_tuning writing the Vb of the tuned Vc too, as lines 773-776 do later
VcTuningAndVb ==
    /\ fn = "Vc_tuning"
    /\ IsNone(returned)
    /\ \E Vc \in [Range(args.composition) -> VcValues] :
          LET tuned == [nm \in DOMAIN args.user_data |->
                          [args.user_data[nm] EXCEPT !.Vc = Vc[nm],
                                                     !.Vb = Vc[nm] \div 3]]
              num == Cardinality({i \in 1..Len(args.rho_0) : args.w_0[i] = 0})
          IN  /\ caller' = [caller EXCEPT !.user_data = tuned]
              /\ returned' = IF num = 0
                             THEN Some([error |-> "ZeroDivisionError",
                                        user_data |-> None])
                             ELSE Some([error |-> "none",
                                        user_data |-> Some(tuned)])
    /\ UNCHANGED <<fn, args, get_oil_state, script>>

\* lines 1577-1722.  The loop of lines 1681-1691 writes the Vc that fmin
\* ends at into the caller's dictionary, component by component; lines
\* 1695-1714 count the measurements with w_0 == 0. in num, and lines
\* 1717-1718 divide the Python floats sum_abs and sum_rel by num.
VcTuning ==
    /\ fn = "Vc_tuning"
    /\ IsNone(returned)
    /\ \E Vc \in [Range(args.composition) -> VcValues] :
          LET tuned == [nm \in DOMAIN args.user_data |->
                          [args.user_data[nm] EXCEPT !.Vc = Vc[nm]]]
              num == Cardinality({i \in 1..Len(args.rho_0) : args.w_0[i] = 0})
          IN  /\ caller' = [caller EXCEPT !.user_data = tuned]
              /\ returned' = IF num = 0
                             THEN Some([error |-> "ZeroDivisionError",
                                        user_data |-> None])
                             ELSE Some([error |-> "none",
                                        user_data |-> Some(tuned)])
    /\ UNCHANGED <<fn, args, get_oil_state, script>>

\* src/tamoc/seawater.py lines 122-161
Sigma ==
    /\ fn = "sigma"
    /\ IsNone(returned)
    /\ returned' = Some(sigma(args.T, args.S))
    /\ UNCHANGED <<fn, args, caller, get_oil_state, script>>

DirectNext ==
    \/ Sigma
    \/ VcTuning
    \/ FormatDbmData
    \/ SequenceNames
    \/ Pedersen
    \/ LoadTamocOilCall
    \/ PrintPetroleumProps

DirectSpec == DirectInit /\ [][DirectNext]_vars

----------------------------------------------------------------------------
(* The example script src/bin/ambient/profile_append.py *)

\* the most rows the down-cast of the CTD file has
MaxDepth == 2

\* the number of depths the script plots: np.linspace(z_min, z_max, 250) of
\* line 146, cut to MaxPlot points
MaxPlot == 2

\* rows of the CTD data as the profile holds them, from the surface down:
\* depth in m, temperature in 1/100 K, salinity in psu, pressure in Pa
CtdRows ==
    << [z |-> 50, T |-> 29515, S |-> 36, P |-> 600000],
       [z |-> 500, T |-> 28315, S |-> 35, P |-> 5000000],
       [z |-> 1500, T |-> 27765, S |-> 35, P |-> 15000000],
       [z |-> 2000, T |-> 27735, S |-> 35, P |-> 20000000] >>

\* the down-casts extract_profile can give (line 77): 1..MaxDepth of the rows
\* in the order of increasing depth
CtdData ==
    UNION { {d \in [1..n -> Range(CtdRows)] :
                \A j \in 1..(n - 1) : d[j].z < d[j + 1].z} : n \in 1..MaxDepth }

\* the nitrogen solubility the engine gives at the surface, in g/m^3
SolubilityValues == {-1, 0, 2}

\* seawater.density(T, S, P), src/tamoc/seawater.py lines 21-75, in
\* 1/10 kg/m^3: the values of the equation of state at the rows of CtdRows,
\* at their own pressure and at 101325 Pa
density(T, S, P) ==
    CASE <<T, S, P>> = <<29515, 36, 600000>> -> 10252
      [] <<T, S, P>> = <<29515, 36, 101325>> -> 10250
      [] <<T, S, P>> = <<28315, 35, 5000000>> -> 10292
      [] <<T, S, P>> = <<28315, 35, 101325>> -> 10270
      [] <<T, S, P>> = <<27765, 35, 15000000>> -> 10346
      [] <<T, S, P>> = <<27765, 35, 101325>> -> 10278
      [] <<T, S, P>> = <<27735, 35, 20000000>> -> 10369
      [] <<T, S, P>> = <<27735, 35, 101325>> -> 10278

\* profile.get_values(z, ['temperature', 'salinity', 'pressure']) at a depth
\* coordinate of the profile: the row of that depth
get_values(p, z) == CHOOSE r \in Range(p.data) : r.z = z

\* the surface solubility taken as the value at depth
SurfaceValue(Cs, T, S, P) == <<Cs, 1>>

\* lines 130-131: Cs * density(T, S, P) / density(T, S, 101325.), a rational
\* <<numerator, denominator>>
Compressed(Cs, T, S, P) == <<Cs * density(T, S, P), density(T, S, 101325)>>

\* a call on the profile, as ops records it
Op(name, arg) == [op |-> name, arg |-> arg]

\* the run starts with the CTD file and an engine (args.solubility[r] is
\* air.solubility(m, T, 101325., S)[0, 0] at the row r)
ScriptInit ==
    /\ NoGetOil
    /\ fn = "profile_append"
    /\ args \in [data : CtdData, solubility : [Range(CtdRows) -> SolubilityValues]]
    /\ caller = None
    /\ returned = None
    /\ profile = None /\ z_coords = <<>> /\ n2_conc = <<>> /\ idx = 0
    /\ ops = <<>> /\ at = "L116"

\* line 116, get_ctd_profile of lines 57-108
GetCtdProfile ==
    /\ at = "L116"
    /\ profile' = Some([data |-> args.data, chem_names |-> <<"oxygen">>])
    /\ ops' = Append(ops, Op("Profile", None))
    /\ at' = "L119"
    /\ UNCHANGED <<direct, get_oil_state, z_coords, n2_conc, idx>>

\* lines 119-126
ModelAir ==
    /\ at = "L119"
    /\ z_coords' = [j \in 1..Len(Val(profile).data) |-> Val(profile).data[j].z]
    /\ n2_conc' = [j \in 1..Len(Val(profile).data) |-> Zero]
    /\ idx' = 0
    /\ at' = "L127"
    /\ UNCHANGED <<direct, get_oil_state, profile, ops>>

\* lines 127-132, one pass of the loop
ComputeNitrogen ==
    /\ at = "L127"
    /\ idx < Len(z_coords)
    /\ LET r == get_values(Val(profile), z_coords[idx + 1])
           Cs == args.solubility[r]
       IN  n2_conc' = [n2_conc EXCEPT ![idx + 1] = Compressed(Cs, r.T, r.S, r.P)]
    /\ ops' = Append(ops, Op("get_values", Some(z_coords[idx + 1])))
    /\ idx' = idx + 1
    /\ UNCHANGED <<direct, get_oil_state, profile, z_coords, at>>

\* the call of close_nc left out
CloseNcSkipped ==
    /\ at = "L142"
    /\ idx' = 0
    /\ at' = "L146"
    /\ UNCHANGED <<direct, get_oil_state, profile, z_coords, n2_conc, ops>>

\* lines 135-139, after the loop: data is the array of the rows
\* (z_coords[j], n2_conc[j])
AppendNitrogen ==
    /\ at = "L127"
    /\ idx = Len(z_coords)
    /\ ops' = Append(ops, Op("append",
                   Some([j \in 1..Len(z_coords) |-> <<z_coords[j], n2_conc[j]>>])))
    /\ at' = "L142"
    /\ UNCHANGED <<direct, get_oil_state, profile, z_coords, n2_conc, idx>>

\* line 142
CloseNc ==
    /\ at = "L142"
    /\ ops' = Append(ops, Op("close_nc", None))
    /\ idx' = 0
    /\ at' = "L146"
    /\ UNCHANGED <<direct, get_oil_state, profile, z_coords, n2_conc>>

\* lines 149-150, one pass of the loop over the plotted depths
PlotValues ==
    /\ at = "L146"
    /\ idx < MaxPlot
    /\ ops' = Append(ops, Op("get_values", Some(idx)))
    /\ idx' = idx + 1
    /\ UNCHANGED <<direct, get_oil_state, profile, z_coords, n2_conc, at>>

\* lines 152-173, after the loop: the figure is drawn and the script ends
Plot ==
    /\ at = "L146"
    /\ idx = MaxPlot
    /\ at' = "done"
    /\ UNCHANGED <<direct, get_oil_state, profile, z_coords, n2_conc, idx, ops>>

ScriptNext ==
    \/ GetCtdProfile
    \/ ModelAir
    \/ ComputeNitrogen
    \/ AppendNitrogen
    \/ CloseNc
    \/ PlotValues
    \/ Plot

ScriptSpec == ScriptInit /\ [][ScriptNext]_vars

\* the interpreter runs the script statement after statement to its end
ScriptLiveSpec == ScriptSpec /\ WF_vars(ScriptNext)

----------------------------------------------------------------------------
(* Properties of get_oil *)

DictLoaders == {"load_tamoc_oil", "load_simap_oil", "dbm_mixture"}
CatalogLoaders == {"load_gnome_oil", "load_adios_oil"}
Loaders == DictLoaders \cup CatalogLoaders

\* how many entries of the sequence are in the set
CountIn(seq, S) == Cardinality({i \in 1..Len(seq) : seq[i] \in S})

\* C1: with gor = 0 and empty ca, get_oil never invokes mix_gas_for_gor; the
\* mixture it returns has exactly the composition the loader gave (same
\* names, same order, nothing added) and the mass fluxes it returns are the
\* loader's mass fractions times one scalar.
C1_GorZeroReturnsDeadOil ==
    (gor = 0 /\ Len(ca) = 0) =>
        /\ "mix_gas_for_gor" \notin Range(calls)
        /\ pc = "done" =>
              LET dead == Val(loaded)
                  flux == Val(mass_flux)
              IN  /\ Val(oil).composition = dead.composition
                  /\ Len(flux.num) = Len(dead.mass_frac.num)
                  /\ flux.den = dead.mass_frac.den
                  /\ \E k \in 1..MaxQOil :
                        \A i \in 1..Len(flux.num) :
                            flux.num[i] = k * dead.mass_frac.num[i]

\* a call with gor = 0 and no atmospheric gas that has returned
C1_Witness ==
    gor = 0 /\ Len(ca) = 0 /\ pc = "done" /\ q_oil = 2
    /\ substance.type = "dict" /\ substance.keys = {"dbm_mixture"}

\* C2: a dict with none of the keys 'composition', 'simap_names',
\* 'dbm_mixture' ends get_oil at the dispatch step with an explicit
\* invalid-oil-description error; nothing after the dispatch is attempted.
C2_InvalidDictFailsFast ==
    (substance.type = "dict" /\ substance.keys \cap DictKeys = {}
     /\ pc # "dispatch") =>
        (pc = "raised" /\ error = "InvalidOilDescription" /\ Len(calls) = 0)

\* composition, mass fractions and interaction data of one length
Aligned(comp, mf, d, dg) ==
    /\ Len(mf.num) = Len(comp)
    /\ ~IsNone(d) => Len(Val(d)) = Len(comp)
    /\ ~IsNone(dg) => Len(Val(dg)) = Len(comp)

\* C3: what get_oil hands to set_mass_fluxes and to the final FluidMixture is
\* aligned (composition, mass fractions, rows of delta, rows of
\* delta_groups), and after gas blending the interaction data are the ones
\* mix_gas_for_gor returned.
C3_InteractionDataAligned ==
    /\ ~IsNone(flux_args) =>
          LET a == Val(flux_args)
          IN  /\ Aligned(a.composition, a.mass_frac, a.delta, a.delta_groups)
              /\ ~IsNone(beta) => a.delta_groups = delta_grous
    /\ ~IsNone(oil) =>
          LET o == Val(oil)
          IN  /\ Aligned(o.composition, mass_frac, o.delta, o.delta_groups)
              /\ ~IsNone(beta) => o.delta_groups = delta_grous

\* the keys in the order the claim gives, and the loader each one stands for
KeyOrder == <<"composition", "simap_names", "dbm_mixture">>
KeyLoader == <<"load_tamoc_oil", "load_simap_oil", "dbm_mixture">>
FirstKey(keys) ==
    CHOOSE i \in 1..Len(KeyOrder) :
        KeyOrder[i] \in keys /\ \A j \in 1..(i-1) : KeyOrder[j] \notin keys

\* C4 as stated: for every dict substance exactly one of load_tamoc_oil,
\* load_simap_oil and the reuse path runs in a call, the one of the first key
\* present in the order 'composition', 'simap_names', 'dbm_mixture'.
C4_ExactlyOneLoaderForEveryDict ==
    (substance.type = "dict" /\ pc # "dispatch") =>
        /\ CountIn(calls, Loaders) = 1
        /\ calls[1] = KeyLoader[FirstKey(substance.keys)]

\* C4, amended: a dict holding at least one of the three keys runs exactly one
\* of the three, the one of the first key present in that order; a dict
\* holding none of them runs none.
C4_DictRoutedByFirstKey ==
    (substance.type = "dict" /\ pc # "dispatch") =>
        IF substance.keys \cap DictKeys = {}
        THEN CountIn(calls, Loaders) = 0
        ELSE /\ CountIn(calls, Loaders) = 1
             /\ calls[1] = KeyLoader[FirstKey(substance.keys)]

\* a dict with two keys, the second of the order winning over the third
C4_Witness ==
    /\ substance.type = "dict"
    /\ substance.keys = {"simap_names", "dbm_mixture"}
    /\ pc = "done"
    /\ calls[1] = "load_simap_oil"

\* the loader the claim gives for each case of a str substance
CatalogLoaderFor(legacy, modern, isfile, hasjson) ==
    CASE legacy /\ modern /\ isfile /\ hasjson -> "load_adios_oil"
      [] legacy /\ modern /\ isfile /\ ~hasjson -> "load_gnome_oil"
      [] legacy /\ modern /\ ~isfile -> "load_gnome_oil"
      [] legacy /\ ~modern -> "load_gnome_oil"
      [] ~legacy /\ modern -> "load_adios_oil"

\* C5: for a str substance the loader get_oil calls is the one the table
\* gives for (legacy available, modern available, existing file, 'json' in
\* the name), and when that loader returns no other loader is called.
C5_CatalogLoaderSelected ==
    (substance.type = "str" /\ (env.oil_library \/ env.adios_db)
     /\ Len(calls) > 0) =>
        LET first == CatalogLoaderFor(env.oil_library, env.adios_db,
                                      substance.isfile,
                                      Contains(substance.name, "json"))
            outcome == IF first = "load_gnome_oil"
                       THEN GnomeOutcome ELSE AdiosOutcome
        IN  /\ calls[1] = first
            /\ outcome = "none" =>
                  (CountIn(calls, Loaders) = 1 /\ bound)

\* both catalogs there, an existing .json file: the modern loader has run
C5_Witness ==
    /\ substance.type = "str" /\ env.oil_library /\ env.adios_db
    /\ substance.isfile /\ substance.name = "oil.json"
    /\ pc = "augment" /\ bound
    /\ calls = <<"load_adios_oil">>

\* the steps after the loader that a returning call makes, in order
ExpectedPipeline ==
    (IF Len(ca) > 0 THEN <<"augment">> ELSE <<>>)
    \o (IF gor > 0 THEN <<"mix_gas_for_gor">> ELSE <<>>)
    \o <<"set_mass_fluxes", "FluidMixture">>

\* C6: in every call that returns, the loader comes first and has completed
\* (loader calls that raised and were caught come before it), then the
\* augmentation iff ca is non-empty, then mix_gas_for_gor iff gor > 0, then
\* set_mass_fluxes once, and the construction of the returned mixture last;
\* nothing else is called and no step after the load is repeated.
C6_PipelineOrder ==
    pc = "done" =>
        LET k == CountIn(calls, Loaders)
        IN  /\ k >= 1
            /\ \A i \in 1..k : calls[i] \in Loaders
            /\ bound /\ ~IsNone(loaded)
            /\ SubSeq(calls, k + 1, Len(calls)) = ExpectedPipeline

\* a returned call that went through every step
C6_Witness ==
    pc = "done" /\ Len(ca) = 2 /\ gor > 0 /\ substance.type = "dict"
    /\ Len(calls) = 5

\* the flux of component i is the number 0 (0 * inf is nan, not 0)
FluxIsZero(flux, i) == flux.num[i] = 0 /\ flux.den # 0 /\ flux.per # 0

\* what lines 160-169 and mix_gas_for_gor leave of a non-empty ca: the names
\* of ca follow the dead oil's, with mass fraction 0, the dead oil's own
\* fractions unchanged, and the returned mixture has that composition
AirAppended ==
    LET dead == Val(loaded)
        nc == Len(dead.composition)
        off == IF IsNone(beta) THEN 0 ELSE 5
        n == off + nc + Len(ca)
    IN  /\ Len(composition) = n
        /\ Len(mass_frac.num) = n
        /\ \A i \in 1..nc : composition[off + i] = dead.composition[i]
        /\ \A j \in 1..Len(ca) :
              /\ composition[off + nc + j] = ca[j]
              /\ mass_frac.num[off + nc + j] = 0
        /\ IsNone(beta) =>
              /\ mass_frac.den = dead.mass_frac.den
              /\ \A i \in 1..nc : mass_frac.num[i] = dead.mass_frac.num[i]
        /\ pc = "done" =>
              /\ Val(oil).composition = composition
              /\ Len(Val(mass_flux).num) = n

\* the entries of the returned flux that belong to the atmospheric gases
AirFluxEntries ==
    {Len(Val(mass_flux).num) - Len(ca) + j : j \in 1..Len(ca)}

\* C7 as stated: a non-empty ca appends its names, in order, after the
\* dead-oil names with mass fraction exactly 0 and the dead oil's fractions
\* unchanged, and the mass flux returned for every atmospheric gas is 0, with
\* or without blending.
C7_AtmosphericGasesAppendedAtZero ==
    (Len(ca) > 0 /\ bound /\ pc \in {"blend", "flux", "construct", "done"}) =>
        /\ AirAppended
        /\ pc = "done" =>
              \A i \in AirFluxEntries : FluxIsZero(Val(mass_flux), i)

\* C7, amended: the same, the mass flux returned for every atmospheric gas
\* being 0 whenever the selected phase has a volume at standard conditions
\* (v_oil > 0); with v_oil = 0 the flux of every component is not finite.
C7_AtmosphericGasesZeroWhenFinite ==
    (Len(ca) > 0 /\ bound /\ pc \in {"blend", "flux", "construct", "done"}) =>
        /\ AirAppended
        /\ pc = "done" =>
              IF Val(v_oil) > 0
              THEN \A i \in AirFluxEntries : FluxIsZero(Val(mass_flux), i)
              ELSE \A i \in 1..Len(Val(mass_flux).num) :
                       ~FluxIsZero(Val(mass_flux), i)

\* a returned call with two atmospheric gases and gas blended in
C7_Witness ==
    /\ pc = "done" /\ ca = <<"carbon_dioxide", "nitrogen">>
    /\ Val(v_oil) > 0
    /\ ~IsNone(beta) /\ Val(beta) = 1
    /\ Len(composition) = 5 + Len(Val(loaded).composition) + 2

\* the group rows the claim gives for a list of atmospheric gases
ClaimedAirRows(gases) ==
    [i \in 1..Len(gases) |->
        [j \in 1..15 |->
            IF gases[i] = "nitrogen" /\ j = 12 + 1 THEN 1
            ELSE IF gases[i] = "carbon_dioxide" /\ j = 11 + 1 THEN 1
            ELSE 0]]

\* C8: for a mixture whose group rows are in use and a non-empty ca, the
\* augmentation completes and leaves a delta_groups table of nc + len(ca)
\* rows of 15 columns: the original rows, then one row per gas that is zero
\* but for column 12 (nitrogen) or column 11 (carbon_dioxide).
C8_GroupRowsAppended ==
    (/\ ~IsNone(loaded)
     /\ ~IsNone(Val(loaded).delta_groups)
     /\ Len(ca) > 0
     /\ pc \notin {"dispatch", "augment"}) =>
        /\ error = "none"
        /\ ~IsNone(delta_groups)
        /\ Val(delta_groups) = Val(Val(loaded).delta_groups) \o ClaimedAirRows(ca)

\* C9: mix_gas_for_gor returns the five natural-gas names followed by the
\* dead-oil composition in its order, and the mass fractions
\* beta * (gas fractions, then 0) + (1 - beta) * (0, then dead-oil fractions)
\* for one beta; they sum to 1 when the dead-oil fractions do (the gas
\* fractions sum to 1).
C9_BlendPrependsGasAndMixes ==
    ~IsNone(beta) =>
        LET b == Val(beta)
            G == <<9390, 420, 184, 3, 3>>
            dead_comp == Val(loaded).composition \o ca
            dead_num == Val(loaded).mass_frac.num \o Zeros(Len(ca))
            dead_den == Val(loaded).mass_frac.den
        IN  /\ composition
                 = <<"methane", "ethane", "propane", "isobutane", "n-butane">>
                   \o dead_comp
            /\ Len(mass_frac.num) = 5 + Len(dead_comp)
            /\ mass_frac.den = BetaDen * 10000 * dead_den
            /\ \A i \in 1..5 : mass_frac.num[i] = b * G[i] * dead_den
            /\ \A i \in 1..Len(dead_comp) :
                  mass_frac.num[5 + i] = (BetaDen - b) * dead_num[i] * 10000
            /\ Sum(G) = 10000
            /\ Sum(dead_num) = dead_den => Sum(mass_frac.num) = mass_frac.den

\* gas blended with 0 < beta < 1 into a dead oil whose fractions sum to 1
C9_Witness ==
    /\ ~IsNone(beta) /\ Val(beta) = 2 /\ pc = "flux"
    /\ Sum(Val(loaded).mass_frac.num) = Val(loaded).mass_frac.den
    /\ Sum(mass_frac.num) = mass_frac.den
    /\ substance.type = "str"

----------------------------------------------------------------------------
(* Properties of set_mass_fluxes *)

\* no entry of the flux is inf or nan
FluxIsFinite(flux) == flux.den # 0 /\ flux.per # 0

\* the flux is the vector mf times the scalar kn / flux.per
ScaledBy(flux, mf, kn) ==
    /\ Len(flux.num) = Len(mf.num)
    /\ flux.den = mf.den
    /\ \A i \in 1..Len(mf.num) : flux.num[i] = kn * mf.num[i]

\* The flash is homogeneous in the total mass: a flux of k kg/s puts
\* k * v bbl/s, that is 86400 * k * v bbl/d, in the selected phase, where v
\* is the volume of the phase for 1 kg/s.  With k = kn / flux.per the rate
\* equals q bbl/d when 86400 * kn * v = q * flux.per.
RateIs(flux, kn, v, q) == 86400 * kn * v = q * flux.per

FluxAtRequestedRate(flux, mf, v, q) ==
    /\ FluxIsFinite(flux)
    /\ \E kn \in 0..q : ScaledBy(flux, mf, kn) /\ RateIs(flux, kn, v, q)

\* C11 as stated: for fp_type 0 and 1 and every composition and
\* mass-fraction vector, the flux set_mass_fluxes returns is finite, is a
\* scalar multiple of the mass-fraction vector, and gives the selected phase
\* the volumetric rate q_oil at standard conditions.
C11_FluxFiniteAtRequestedRate ==
    ~IsNone(mass_flux) =>
        FluxAtRequestedRate(Val(mass_flux), Val(flux_args).mass_frac,
                            Val(v_oil), q_oil)

\* C11, amended: the same for every mixture that has a volume in the
\* selected phase at standard conditions (v_oil > 0); for a mixture with
\* none the division of line 644 is by zero and the flux is not finite.
C11_FluxAtRequestedRateWhenPhasePresent ==
    ~IsNone(mass_flux) =>
        IF Val(v_oil) > 0
        THEN FluxAtRequestedRate(Val(mass_flux), Val(flux_args).mass_frac,
                                 Val(v_oil), q_oil)
        ELSE ~FluxIsFinite(Val(mass_flux))

\* a returned call for the gas phase of a blended mixture, two unit volumes
C11_Witness ==
    /\ pc = "done" /\ fp_type = 0 /\ gor > 0 /\ q_oil = 2
    /\ Val(v_oil) = 2 /\ Val(mass_flux).per = 2 * 86400

----------------------------------------------------------------------------
(* Properties of format_dbm_data and of the loaders' records *)

\* the positions whose values the record of their name holds: the last
\* position of each name (every position when the names are unique)
Recorded(comp) ==
    {i \in 1..Len(comp) : \A j \in (i+1)..Len(comp) : comp[j] # comp[i]}

\* C12: format_dbm_data returns one record per composition name; its kh_0 is
\* 0 where the value supplied for the component was below 0 and the supplied
\* value elsewhere, so no record has kh_0 < 0; each of Vc, Tb, Vb, B, dE that
\* was not supplied is -9999 in every record.
C12_FormatDbmDataClampsAndFlags ==
    (fn = "format_dbm_data" /\ ~IsNone(returned)) =>
        LET data == Val(returned)
            comp == args.composition
        IN  /\ DOMAIN data = Range(comp)
            /\ \A i \in Recorded(comp) :
                  /\ args.kh_0[i] < 0 => data[comp[i]].kh_0 = 0
                  /\ args.kh_0[i] >= 0 => data[comp[i]].kh_0 = args.kh_0[i]
            /\ \A nm \in DOMAIN data :
                  /\ data[nm].kh_0 >= 0
                  /\ \A f \in Optional :
                        args[f].kind = "None" => data[nm][f] = -9999

\* a call with a negative and a positive constant, Vc left out and B given
C12_Witness ==
    /\ fn = "format_dbm_data" /\ ~IsNone(returned)
    /\ args.composition = <<"AR1", "AL1">>
    /\ args.kh_0 = <<-1, 3>>
    /\ args.Vc.kind = "None" /\ args.B.kind = "ndarray"
    /\ Val(returned)["AR1"].kh_0 = 0

\* the path that bound the locals is the SIMAP one, or one of the catalogs
OnSimapPath == "load_simap_oil" \in Range(calls)
OnCatalogPath == Range(calls) \cap CatalogLoaders # {}

\* the names of the loaded oil that the loader does not take for aromatics
NotAromatic ==
    {nm \in Range(Val(loaded).composition) :
        IF OnSimapPath THEN ~Contains(nm, "AR") ELSE ~Contains(nm, "Aromatics")}

\* C13 as stated: in the records load_gnome_oil, load_adios_oil and
\* load_simap_oil return, every pseudo-component that is not an aromatic has
\* kh_0, nu_bar, K_salt and -dH_solR all equal to -9999.
C13_NonAromaticsAllFlagged ==
    ((OnSimapPath \/ OnCatalogPath) /\ ~IsNone(loaded)) =>
        \A nm \in NotAromatic :
            LET r == Val(loaded).user_data[nm]
            IN  /\ r.kh_0 = -9999
                /\ r.nu_bar = -9999
                /\ r.K_salt = -9999
                /\ r.neg_dH_solR = -9999

\* C13, amended: in those records every pseudo-component that is not an
\* aromatic has nu_bar, K_salt and -dH_solR equal to -9999 and kh_0 equal to
\* 0: the loader flags kh_0 with -9999 and format_dbm_data clamps it to 0.
C13_NonAromaticsInsoluble ==
    ((OnSimapPath \/ OnCatalogPath) /\ ~IsNone(loaded)) =>
        \A nm \in NotAromatic :
            LET r == Val(loaded).user_data[nm]
            IN  /\ r.kh_0 = 0
                /\ r.nu_bar = -9999
                /\ r.K_salt = -9999
                /\ r.neg_dH_solR = -9999

\* a catalog oil with two saturates and a resin next to its aromatic
C13_Witness ==
    /\ OnCatalogPath /\ ~IsNone(loaded)
    /\ NotAromatic = {"Saturates1", "Saturates2", "Resins"}
    /\ Val(loaded).user_data["Aromatics1"].kh_0 > 0
    /\ Val(loaded).user_data["Resins"].kh_0 = 0

----------------------------------------------------------------------------
(* Properties of the mixture get_oil builds *)

\* the names get_oil put around the dead oil's: natural gas and ca
AddedNames ==
    Range(Val(oil).composition) \ Range(Val(loaded).composition)

Both(d, dg) == ~IsNone(d) /\ ~IsNone(dg)

\* the call reuses a stored mixture whose two tables are both non-zero
StoredBoth ==
    /\ "dbm_mixture" \in Range(calls)
    /\ ~DeltaSumIsZero(Mixtures[substance.mixture].delta)
    /\ ~GroupsSumIsZero(Mixtures[substance.mixture].delta_groups)

\* C15 as stated: every mixture object get_oil, set_mass_fluxes (for
\* get_oil) and mix_gas_for_gor construct is given at most one of delta and
\* delta_groups, on every source path, 'dbm_mixture' included.
C15_NeverBothRepresentations ==
    /\ ~IsNone(beta) => ~Both(delta, delta_grous)
    /\ ~IsNone(flux_args) =>
          ~Both(Val(flux_args).delta, Val(flux_args).delta_groups)
    /\ ~IsNone(oil) => ~Both(Val(oil).delta, Val(oil).delta_groups)

\* C15, amended: the same on every path but one: when the mixture stored
\* under 'dbm_mixture' holds a non-zero delta and a non-zero delta_groups,
\* lines 94-101 bind both and every mixture constructed is given both.
C15_BothOnlyFromStoredMixture ==
    IF StoredBoth
    THEN /\ ~IsNone(beta) => Both(delta, delta_grous)
         /\ ~IsNone(flux_args) =>
               Both(Val(flux_args).delta, Val(flux_args).delta_groups)
         /\ ~IsNone(oil) => Both(Val(oil).delta, Val(oil).delta_groups)
    ELSE /\ ~IsNone(beta) => ~Both(delta, delta_grous)
         /\ ~IsNone(flux_args) =>
               ~Both(Val(flux_args).delta, Val(flux_args).delta_groups)
         /\ ~IsNone(oil) => ~Both(Val(oil).delta, Val(oil).delta_groups)

\* a stored mixture with group rows only, blended with gas and returned
C15_Witness ==
    /\ pc = "done" /\ ~IsNone(beta)
    /\ "dbm_mixture" \in Range(calls) /\ ~StoredBoth
    /\ IsNone(Val(oil).delta) /\ ~IsNone(Val(oil).delta_groups)

\* the call reuses a stored mixture and neither adds air nor blends gas
PlainReuse ==
    /\ "dbm_mixture" \in Range(calls)
    /\ Len(ca) = 0 /\ gor = 0

\* what is handed over has the stored composition and user_data, the
\* caller's masses as they are, and the given interaction data
HandedOver(m, d, dg) ==
    /\ ~IsNone(flux_args) =>
          /\ Val(flux_args).composition = m.composition
          /\ Val(flux_args).user_data = m.user_data
          /\ Val(flux_args).mass_frac = MixtureMasses[substance.masses]
          /\ Val(flux_args).delta = d
          /\ Val(flux_args).delta_groups = dg
    /\ ~IsNone(oil) =>
          /\ Val(oil).composition = m.composition
          /\ Val(oil).user_data = m.user_data
          /\ Val(oil).delta = d
          /\ Val(oil).delta_groups = dg

\* C16 as stated: on the 'dbm_mixture' path with empty ca and gor = 0 the
\* stored composition, user_data, delta and delta_groups are handed verbatim
\* to set_mass_fluxes and to the new mixture, whatever the stored tables
\* (tables whose entries sum to 0 too), and the caller's masses are the mass
\* fractions, not normalised.
C16_StoredMixtureVerbatim ==
    PlainReuse =>
        LET m == Mixtures[substance.mixture]
        IN  HandedOver(m, Some(m.delta), Some(m.delta_groups))

\* C16, amended: the same, but a stored table whose entries sum to 0 is
\* handed over as None and only a table with a non-zero sum is handed over
\* as stored.
C16_StoredMixtureZeroTablesDropped ==
    PlainReuse =>
        LET m == Mixtures[substance.mixture]
        IN  HandedOver(m,
                IF \A i \in 1..Len(m.delta) :
                       \A j \in 1..Len(m.delta) : m.delta[i][j][1] = 0
                THEN None ELSE Some(m.delta),
                IF \A i \in 1..Len(m.delta_groups) :
                       \A j \in 1..15 : m.delta_groups[i][j] = 0
                THEN None ELSE Some(m.delta_groups))

\* a stored mixture with a Pedersen matrix and no group rows, reused with
\* masses that do not sum to 1
C16_Witness ==
    /\ PlainReuse /\ pc = "done"
    /\ substance.mixture = 1 /\ substance.masses = 2
    /\ Val(flux_args).mass_frac = [num |-> <<1, 3>>, den |-> 1]
    /\ ~IsNone(Val(oil).delta) /\ IsNone(Val(oil).delta_groups)

----------------------------------------------------------------------------
(* Properties of sequence_names *)

Digit == <<"0", "1", "2", "3", "4", "5", "6", "7", "8", "9">>

\* the decimal numeral of a natural number
RECURSIVE Decimal(_)
Decimal(k) ==
    IF k < 10 THEN Digit[k + 1] ELSE Decimal(k \div 10) \o Digit[(k % 10) + 1]

\* how many of the first i entries of the list are the name
Rank(l, name, i) == Cardinality({j \in 1..i : l[j] = name})

\* C17: after sequence_names(L, b) the caller's list has the same length,
\* the k-th entry that was exactly b is b followed by the decimal k, every
\* other entry is unchanged, and nothing is returned.
C17_SequenceNamesNumbersInPlace ==
    (fn = "sequence_names" /\ ~IsNone(returned)) =>
        LET L == args.sara_names
            b == args.name
            now == caller.sara_names
        IN  /\ Val(returned) = None
            /\ Len(now) = Len(L)
            /\ \A i \in 1..Len(L) :
                  IF L[i] = b
                  THEN now[i] = b \o Decimal(Rank(L, b, i))
                  ELSE now[i] = L[i]

\* the example of the docstring, returned
C17_Witness ==
    /\ fn = "sequence_names" /\ ~IsNone(returned)
    /\ args.sara_names = <<"Saturates", "Aromatics", "Saturates">>
    /\ args.name = "Saturates"
    /\ caller.sara_names = <<"Saturates1", "Aromatics", "Saturates2">>

----------------------------------------------------------------------------
(* Uniqueness of the names *)

\* no name occurs twice in the list
NoRepeat(l) == \A i \in 1..Len(l) : \A j \in 1..Len(l) : l[i] = l[j] => i = j

\* C18: the list load_gnome_oil / load_adios_oil returns has no repeated
\* name, whatever the sequence of SARA categories of the catalog record
\* (repeats of any category are told apart), and the composition of the
\* mixture get_oil returns has no repeated name.
C18_NamesUniqueAtEveryStage ==
    /\ (OnCatalogPath /\ ~IsNone(loaded)) => NoRepeat(Val(loaded).composition)
    /\ ~IsNone(oil) => NoRepeat(Val(oil).composition)

----------------------------------------------------------------------------
(* Properties of pedersen *)

\* two entries (numerator, denominator) are the same number
Same(a, b) == a[1] * b[2] = b[1] * a[2]

\* the larger of a / b and b / a, for positive a and b
LargerRatio(a, b) == IF a * a >= b * b THEN <<a, b>> ELSE <<b, a>>

\* 0.00145 times the larger of the two ratios of M[i] and M[j]
RatioValue(M, i, j) ==
    LET r == LargerRatio(M[i], M[j]) IN <<145 * r[1], 100000 * r[2]>>

\* C19: for an array M of two or more positive molecular weights,
\* pedersen(M) with no composition is a len(M) x len(M) matrix with a zero
\* diagonal and 0.00145 * max(M[i]/M[j], M[j]/M[i]) at (i, j), i # j.
C19_PedersenRatioMatrix ==
    (fn = "pedersen" /\ ~IsNone(returned) /\ Len(args.composition) = 0) =>
        LET M == args.M
            d == Val(returned)
        IN  /\ Len(d) = Len(M)
            /\ \A i \in 1..Len(M) :
                  /\ Len(d[i]) = Len(M)
                  /\ d[i][i][1] = 0
                  /\ \A j \in 1..Len(M) :
                        i # j => /\ d[i][j][2] > 0
                                 /\ Same(d[i][j], RatioValue(M, i, j))

\* three weights, two of them equal: 0.00145 * 3 and 0.00145 * 1
C19_Witness ==
    /\ fn = "pedersen" /\ ~IsNone(returned)
    /\ args.composition = <<>> /\ args.M = <<1, 3, 3>>
    /\ Same(Val(returned)[1][2], <<435, 100000>>)
    /\ Same(Val(returned)[2][3], <<145, 100000>>)

\* position i holds the atmospheric gas air[k] that pedersen corrects: the
\* first entry of the composition with that name
IsAir(comp, i, k) == comp[i] = air[k] /\ \A h \in 1..(i-1) : comp[h] # air[k]
\* position j holds the natural gas gas[g] that pedersen corrects
IsGas(comp, j, g) == comp[j] = gas[g] /\ \A h \in 1..(j-1) : comp[h] # gas[g]

AirAt(comp, i) == {k \in 1..3 : IsAir(comp, i, k)}
GasAt(comp, j) == {g \in 1..5 : IsGas(comp, j, g)}

\* a name with one of the base names 'Saturates', 'Aromatics', 'Resins',
\* 'Asphaltenes', of an atmospheric gas or of a natural gas in it
KnownName(nm) ==
    \E b \in {"Saturates", "Aromatics", "Resins", "Asphaltenes", "nitrogen",
              "oxygen", "carbon_dioxide", "methane", "ethane", "propane",
              "isobutane", "n-butane"} : Contains(nm, b)

AirConstant == <<<<8, 100>>, <<8, 100>>, <<1, 100>>>>
AirGasTable ==
    << << <<311, 10000>>, <<515, 10000>>, <<852, 10000>>, <<1033, 10000>>,
          <<8, 100>> >>,
       << <<311, 10000>>, <<515, 10000>>, <<852, 10000>>, <<1033, 10000>>,
          <<8, 100>> >>,
       << <<12, 100>>, <<12, 100>>, <<12, 100>>, <<12, 100>>, <<12, 100>> >> >>

\* C20 as stated: with a composition, each atmospheric gas present has the
\* constant 0.08, 0.08, 0.01 (nitrogen, oxygen, carbon_dioxide) with every
\* other known component, but the value of the 3 x 5 table with each natural
\* gas present; its diagonal entry is 0; an entry between two components
\* that are not atmospheric gases keeps the molecular-weight-ratio value.
C20_AirGasCorrections ==
    (fn = "pedersen" /\ ~IsNone(returned) /\ Len(args.composition) > 0) =>
        LET comp == args.composition
            d == Val(returned)
            n == Len(comp)
        IN  \A i \in 1..n : \A j \in 1..n :
                /\ (AirAt(comp, i) # {} /\ i = j) => d[i][j][1] = 0
                /\ (AirAt(comp, i) # {} /\ i # j /\ KnownName(comp[j])) =>
                      \A k \in AirAt(comp, i) :
                          /\ \A g \in GasAt(comp, j) :
                                Same(d[i][j], AirGasTable[k][g])
                          /\ GasAt(comp, j) = {} =>
                                Same(d[i][j], AirConstant[k])
                /\ (AirAt(comp, i) = {} /\ AirAt(comp, j) = {} /\ i # j) =>
                      Same(d[i][j], RatioValue(args.M, i, j))

\* C20, amended: the same for pairs of known components, the entry between
\* two atmospheric gases being the constant of the one that is later in the
\* order nitrogen, oxygen, carbon_dioxide (0.01 whenever carbon_dioxide is
\* one of the two); only entries between two known components that are not
\* atmospheric gases keep the molecular-weight-ratio value.
C20_AirGasCorrectionsLaterGasWins ==
    (fn = "pedersen" /\ ~IsNone(returned) /\ Len(args.composition) > 0) =>
        LET comp == args.composition
            d == Val(returned)
            n == Len(comp)
        IN  \A i \in 1..n : \A j \in 1..n :
                /\ (AirAt(comp, i) # {} /\ i = j) => d[i][j][1] = 0
                /\ (AirAt(comp, i) # {} /\ i # j /\ KnownName(comp[j])) =>
                      \A k \in AirAt(comp, i) :
                          /\ \A g \in GasAt(comp, j) :
                                Same(d[i][j], AirGasTable[k][g])
                          /\ \A k2 \in AirAt(comp, j) :
                                Same(d[i][j], AirConstant[Max(k, k2)])
                          /\ (GasAt(comp, j) = {} /\ AirAt(comp, j) = {}) =>
                                Same(d[i][j], AirConstant[k])
                /\ (/\ AirAt(comp, i) = {} /\ AirAt(comp, j) = {} /\ i # j
                    /\ KnownName(comp[i]) /\ KnownName(comp[j])) =>
                      Same(d[i][j], RatioValue(args.M, i, j))

\* nitrogen, methane and carbon_dioxide: table values with methane, and
\* 0.01 between the two atmospheric gases
C20_Witness ==
    /\ fn = "pedersen" /\ ~IsNone(returned)
    /\ args.composition = <<"nitrogen", "methane", "carbon_dioxide">>
    /\ Same(Val(returned)[1][2], <<311, 10000>>)
    /\ Same(Val(returned)[3][2], <<12, 100>>)
    /\ Same(Val(returned)[1][3], <<1, 100>>)

Supplied(masses) ==
    IF masses.kind \in {"float", "int"} THEN <<masses.value>> ELSE masses.value

C23_PrintPetroleumPropsReturnsFlux ==
    (fn = "print_petroleum_props" /\ ~IsNone(returned)) =>
        LET r == Val(returned)
        IN  /\ r.error = "none"
            /\ IF IsNone(args.q_oil)
               THEN r.mass_flux = Some(args.mass_frac)
               ELSE \E v \in VOilValues :
                       r.mass_flux = Some(set_mass_fluxes(args.mass_frac,
                                              Val(args.q_oil), v))

\* C24: diagnostics never alter control flow: for every series of whole-oil
\* density measurements, the empty one and one without a measurement of
\* weathering 0 included, Vc_tuning returns the tuned records
C24_VcTuningReturnsForAnyMeasurements ==
    (fn = "Vc_tuning" /\ ~IsNone(returned)) =>
        /\ Val(returned).error = "none"
        /\ ~IsNone(Val(returned).user_data)
        /\ DOMAIN Val(Val(returned).user_data) = Range(args.composition)

\* C25: the caller's objects after a call, compared with what was passed
Passed(k) == IF k = "substance" THEN args ELSE args[k]

AsPassed == \A k \in DOMAIN caller : caller[k] = Passed(k)

PureWater(T_K) == [T_w |-> T_K, correction |-> 0]

Appended == {k \in 1..Len(ops) : ops[k].op = "append"}

C27_NitrogenSeries ==
    \A k \in Appended :
        LET data == Val(ops[k].arg)
            rows == Val(profile).data
        IN  /\ Len(data) = Len(rows)
            /\ \A j \in 1..Len(rows) :
                  LET r == rows[j]
                      Cs == args.solubility[r]
                      top == density(r.T, r.S, r.P)
                      bottom == density(r.T, r.S, 101325)
                  IN  /\ data[j][1] = r.z
                      /\ data[j][2][2] # 0
                      /\ data[j][2][1] * bottom = Cs * top * data[j][2][2]
                      /\ (Cs >= 0 /\ top > 0 /\ bottom > 0) =>
                            data[j][2][1] >= 0 /\ data[j][2][2] > 0

C27_Witness ==
    /\ at = "done"
    /\ Len(args.data) = 2
    /\ args.data[2].z = 1500
    /\ args.solubility[args.data[2]] = 2
    /\ \E k \in Appended :
          Val(ops[k].arg)[2] = <<1500, <<20692, 10278>>>>

\* C28: the calls on the profile in the order of the run
Created == {k \in 1..Len(ops) : ops[k].op = "Profile"}
Finalized == {k \in 1..Len(ops) : ops[k].op = "close_nc"}
Read == {k \in 1..Len(ops) : ops[k].op = "get_values"}

\* at every moment of the run: the profile is created first and once,
\* appended to at most once, finalized at most once and only after the append
InOrder ==
    /\ Created = (IF ops = <<>> THEN {} ELSE {1})
    /\ Cardinality(Appended) <= 1
    /\ Cardinality(Finalized) <= 1
    /\ \A k \in Finalized : \E j \in Appended : j < k

\* C28 as stated: the profile is created, appended to once, finalized once
\* after the append, and neither get_values nor append is invoked after
\* close_nc
C28_NothingAfterFinalize ==
    /\ InOrder
    /\ \A k \in Finalized : \A j \in Read \cup Appended : j < k

\* C28: the profile is created first, then read and appended to exactly
\* once, then finalized exactly once, and the run ends; append is never
\* invoked after close_nc, while get_values is: the plotting loop reads the
\* finalized profile
C28_LifecycleWithReadsAfterFinalize ==
    /\ [](InOrder /\ \A k \in Finalized : \A j \in Appended : j < k)
    /\ <>[](/\ at = "done"
            /\ Cardinality(Appended) = 1
            /\ Cardinality(Finalized) = 1
            /\ \A k \in Finalized :
                  Cardinality({j \in Read : j > k}) = MaxPlot)

C28_Witness ==
    /\ at = "done"
    /\ Len(ops) = 4 + MaxPlot
    /\ ops[1].op = "Profile"
    /\ ops[2].op = "get_values"
    /\ ops[3].op = "append"
    /\ ops[4].op = "close_nc"
    /\ ops[5].op = "get_values"

\* C29: for a str substance get_oil calls at most one catalog loader, and an
\* error raised inside that loader leaves get_oil as it is: it is not taken
\* for the probe's signal and no second loader runs
C29_LoaderErrorsPropagate ==
    (substance.type = "str" /\ Len(calls) > 0) =>
        LET outcome == IF calls[1] = "load_gnome_oil"
                       THEN GnomeOutcome ELSE AdiosOutcome
        IN  /\ CountIn(calls, Loaders) <= 1
            /\ outcome # "none" => (pc = "raised" /\ error = outcome)

\* C30: for positive molecular weights and any composition, the matrix
\* pedersen returns is symmetric and its diagonal is zero
C30_PedersenSymmetricZeroDiagonal ==
    (fn = "pedersen" /\ ~IsNone(returned)) =>
        LET d == Val(returned)
            n == Len(args.M)
        IN  /\ Len(d) = n
            /\ \A i \in 1..n :
                  /\ Len(d[i]) = n
                  /\ d[i][i][1] = 0 /\ d[i][i][2] # 0
                  /\ \A j \in 1..n : Same(d[i][j], d[j][i])

C30_Witness ==
    /\ fn = "pedersen" /\ ~IsNone(returned)
    /\ args.M = <<1, 3, 3>>
    /\ args.composition = <<"methane", "nitrogen", "Saturates1">>
    /\ Val(returned)[1][2] = <<311, 10000>>
    /\ Val(returned)[2][1] = <<311, 10000>>
    /\ Val(returned)[1][3][1] # 0
    /\ Val(returned)[3][1][1] # 0

====
